---- MODULE Spec2Model ----
(***************************************************************************)
(* The GPU memory attribution engine of AURA:                              *)
(* src/gpu-inference-exporter/enhanced_gpu_inference.py.                   *)
(*                                                                         *)
(* One Cycle action is one call of EnhancedGPUInference.calculate_inference*)
(* made by main()'s loop.  The Prometheus gauges are state: a labelled     *)
(* gauge keeps every child it was ever given until the process ends.       *)
(*                                                                         *)
(* Memory is counted in MiB (nvidia-smi reports MiB, the code multiplies   *)
(* by 1024*1024), time in seconds.  Python floats are modelled as exact    *)
(* rationals <<numerator, denominator>> in lowest terms.                   *)
(***************************************************************************)
EXTENDS Integers, Sequences, FiniteSets, TLC

VARIABLES
    now,                        \* time.time() at the latest cycle
    cycle,                      \* number of calculate_inference calls made
    outcome,                    \* "none" | "ok" | "error": how the latest call ended
    readings,                   \* what the collaborators returned in the latest call
    container_profiles,         \* self.container_profiles
    memory_history,             \* self.memory_history
    gpu_memory_total_bytes,     \* gauges, keyed by their label values
    gpu_memory_used_bytes,
    gpu_memory_free_bytes,
    gpu_memory_known_bytes,
    gpu_memory_unknown_bytes,
    container_gpu_memory_bytes,
    container_gpu_score,
    container_gpu_detected,
    gpu_inference_active,
    gpu_inference_confidence,
    unknown_memory_histogram,
    locals,                     \* per device, what the latest call computed
                                \* (its locals) and which shares it handed out
    profile_ops,                \* the calls the latest cycle made on profiles,
                                \* in program order: update or score, and whose
    detector,                   \* enhanced_ollama_exporter.py: the
                                \* InferenceDetector and the gauges it sets
    collector,                  \* ollama_exporter.py: the OllamaCollector and
                                \* the gauges it sets
    threads,                    \* where the loops of the two exporters stand
    mega,                       \* mega_exporter.py: its two threads, metrics_data
                                \* and the dashboard's historical_data
    tracker,                    \* llm_metrics_exporter.py: a RequestTracker and
                                \* the gauges and counters it sets
    wrapper                     \* ollama_inference_wrapper.py: the requests in
                                \* flight, pending_requests and queue_size

vars == << now, cycle, outcome, readings, container_profiles, memory_history,
           gpu_memory_total_bytes, gpu_memory_used_bytes, gpu_memory_free_bytes,
           gpu_memory_known_bytes, gpu_memory_unknown_bytes,
           container_gpu_memory_bytes, container_gpu_score,
           container_gpu_detected, gpu_inference_active,
           gpu_inference_confidence, unknown_memory_histogram, locals,
           profile_ops, detector, collector, threads, mega, tracker, wrapper >>

\* The variables of the attribution engine, apart from the clock
engine_vars ==
    << cycle, outcome, readings, container_profiles, memory_history,
       gpu_memory_total_bytes, gpu_memory_used_bytes, gpu_memory_free_bytes,
       gpu_memory_known_bytes, gpu_memory_unknown_bytes,
       container_gpu_memory_bytes, container_gpu_score,
       container_gpu_detected, gpu_inference_active,
       gpu_inference_confidence, unknown_memory_histogram, locals,
       profile_ops >>

\* The variables of the two Ollama exporters
ollama_vars == << detector, collector, threads >>

\* The variables of the mega exporter and of the LLM metrics services
service_vars == << mega, tracker, wrapper >>

-----------------------------------------------------------------------------
(* Bounds of the model and configuration of the run.                       *)

\* calls of calculate_inference explored under Spec (wide readings)
MaxCycles == 2

\* calls of calculate_inference explored under SpecDeep (narrow readings)
MaxDeepCycles == 7

\* calls of calculate_inference explored under SpecLong (two readings)
MaxLongCycles == 12

\* rounds of the probe thread with a free outcome, and seconds of the
\* exporters' clock, explored under SpecProbe
MaxProbes == 3

MaxClock == 35

\* calls of ContainerProfile.update explored under SpecProfile
MaxObservations == 12

\* HISTORY_SIZE is read from the environment (default 30); the model runs
\* with a shorter history so that eviction is reached.
HISTORY_SIZE == 11

\* nvmlDeviceGetCount()
device_count == 2

SCRAPE_INTERVAL == 10

Devices == 0 .. (device_count - 1)

-----------------------------------------------------------------------------
(* Exact rational arithmetic standing for the float arithmetic.            *)

Abs(n) == IF n < 0 THEN -n ELSE n

RECURSIVE GCD(_, _)
GCD(a, b) == IF b = 0 THEN a ELSE GCD(b, a % b)

Rat(n, d) == LET g == GCD(Abs(n), d) IN << n \div g, d \div g >>

R(n) == << n, 1 >>

RAdd(a, b) ==
    LET g == GCD(a[2], b[2])
    IN  Rat(a[1] * (b[2] \div g) + b[1] * (a[2] \div g), (a[2] \div g) * b[2])

RMul(a, b) ==
    LET g1 == GCD(Abs(a[1]), b[2])
        g2 == GCD(Abs(b[1]), a[2])
    IN  Rat((a[1] \div g1) * (b[1] \div g2), (a[2] \div g2) * (b[2] \div g1))

\* a / b for b > 0
RDiv(a, b) == RMul(a, << b[2], b[1] >>)

RSub(a, b) == RAdd(a, << -b[1], b[2] >>)

RLess(a, b) == a[1] * b[2] < b[1] * a[2]

RLeq(a, b) == a[1] * b[2] <= b[1] * a[2]

RMin(a, b) == IF RLess(b, a) THEN b ELSE a

RECURSIVE RSum(_)
RSum(s) == IF s = << >> THEN R(0) ELSE RAdd(s[1], RSum(Tail(s)))

Max0(n) == IF n > 0 THEN n ELSE 0

-----------------------------------------------------------------------------
(* Container names are strings of characters, so that the substring test   *)
(* of _detect_llm_container is computed as the code computes it.           *)

Upper == << "A", "B", "C", "D", "E", "F", "G", "H", "I", "J", "K", "L", "M",
            "N", "O", "P", "Q", "R", "S", "T", "U", "V", "W", "X", "Y", "Z" >>

Lower == << "a", "b", "c", "d", "e", "f", "g", "h", "i", "j", "k", "l", "m",
            "n", "o", "p", "q", "r", "s", "t", "u", "v", "w", "x", "y", "z" >>

\* str.lower(), one character
LowerChar(ch) ==
    IF \E i \in 1 .. Len(Upper) : Upper[i] = ch
    THEN Lower[CHOOSE i \in 1 .. Len(Upper) : Upper[i] = ch]
    ELSE ch

\* str.lower()
lower(name) == [i \in 1 .. Len(name) |-> LowerChar(name[i])]

\* Python's `indicator in name`
Contains(name, indicator) ==
    \E i \in 1 .. (Len(name) - Len(indicator) + 1) :
        SubSeq(name, i, i + Len(indicator) - 1) = indicator

llm_indicators ==
    { << "o", "l", "l", "a", "m", "a" >>,
      << "l", "l", "a", "m", "a" >>,
      << "g", "p", "t" >>,
      << "l", "l", "m" >>,
      << "a", "i" >>,
      << "m", "l" >>,
      << "m", "o", "d", "e", "l" >>,
      << "i", "n", "f", "e", "r", "e", "n", "c", "e" >> }

\* A faulty _detect_llm_container, for contrast: no name is recognised.
DetectsNoName(name) == FALSE

_detect_llm_container(name) ==
    LET name_lower == lower(name)
    IN  \E indicator \in llm_indicators : Contains(name_lower, indicator)

-----------------------------------------------------------------------------
(* ContainerProfile                                                        *)

ContainerProfile(container_id, container_name) ==
    [ container_id       |-> container_id,
      container_name     |-> container_name,
      gpu_history        |-> << >>,
      last_seen_with_gpu |-> << >>,          \* None
      typical_memory     |-> R(0),
      is_llm             |-> _detect_llm_container(container_name) ]

\* A faulty DequeAppend, for contrast: nothing is ever evicted.
DequeAppendUnbounded(d, x) == Append(d, x)

\* deque(maxlen=HISTORY_SIZE).append
DequeAppend(d, x) ==
    LET a == Append(d, x)
    IN  IF Len(a) > HISTORY_SIZE THEN SubSeq(a, 2, Len(a)) ELSE a

\* A faulty VisibleMemories, for contrast: every entry's memory is taken.
AllMemories(gpu_history) ==
    [i \in 1 .. Len(gpu_history) |-> R(gpu_history[i].memory)]

\* [h['memory'] for h in gpu_history if h['visible'] and h['memory'] > 0]
VisibleMemories(gpu_history) ==
    LET Keep(h) == h.visible /\ h.memory > 0
        kept == SelectSeq(gpu_history, Keep)
    IN  [i \in 1 .. Len(kept) |-> R(kept[i].memory)]

\* ContainerProfile.update at time t
update(profile, has_visible_gpu, memory_bytes, t) ==
    LET history == DequeAppend(profile.gpu_history,
                               [ timestamp |-> t,
                                 visible   |-> has_visible_gpu,
                                 memory    |-> memory_bytes ])
        visible_memories == VisibleMemories(history)
    IN  [ profile EXCEPT
            !.gpu_history = history,
            !.last_seen_with_gpu = IF has_visible_gpu THEN << t >> ELSE @,
            !.typical_memory =
                IF Len(history) > 5 /\ visible_memories # << >>
                THEN RDiv(RSum(visible_memories), R(Len(visible_memories)))
                ELSE @ ]

\* sum(1 for h in gpu_history if h['visible'])
GpuCount(gpu_history) ==
    Cardinality({ i \in 1 .. Len(gpu_history) : gpu_history[i].visible })

\* ContainerProfile.get_gpu_likelihood_score at time t
get_gpu_likelihood_score(profile, t) ==
    LET base == IF profile.is_llm THEN << 1, 2 >> ELSE R(0)
        time_since_gpu ==
            IF profile.last_seen_with_gpu = << >> THEN 0
            ELSE t - profile.last_seen_with_gpu[1]
        recent ==
            IF profile.last_seen_with_gpu # << >> /\ time_since_gpu < 300
            THEN RAdd(base, RMul(<< 3, 10 >>, RSub(R(1), Rat(time_since_gpu, 300))))
            ELSE base
        score ==
            IF Len(profile.gpu_history) > 10
            THEN RAdd(recent,
                      RMul(<< 1, 5 >>,
                           Rat(GpuCount(profile.gpu_history), Len(profile.gpu_history))))
            ELSE recent
    IN  RMin(score, R(1))

-----------------------------------------------------------------------------
(* The host: the containers docker knows, and their names.                 *)

Containers == { "a1", "b2", "c3" }

\* data['Name'].lstrip('/') of docker inspect
Name(container_id) ==
    CASE container_id = "a1" -> << "c", "u", "d", "a", "-", "j", "o", "b" >>
      [] container_id = "b2" -> << "o", "l", "l", "a", "m", "a" >>
      [] container_id = "c3" -> << "w", "e", "b" >>
      [] container_id = "d4" -> << "o", "l", "l", "a", "m", "a", "-",
                                   "w", "o", "r", "k", "e", "r" >>
      [] container_id = "e5" -> << "n", "g", "i", "n", "x" >>
      [] container_id = "f6" -> << "b", "a", "t", "c", "h" >>
      [] container_id = "g7" -> << "c", "a", "c", "h", "e" >>

\* The label values of one child of container_gpu_memory_bytes
MemLabels(container_id, gpu_idx, method) ==
    [ container_name |-> Name(container_id), container_id |-> container_id,
      gpu |-> gpu_idx, method |-> method ]

\* The label values of one child of container_gpu_score / container_gpu_detected
ContainerLabels(container_id) ==
    [ container_name |-> Name(container_id), container_id |-> container_id ]

\* gauge.labels(...).set(value): the child is created if it is new
GaugeSet(gauge, labels, value) ==
    (labels :> value) @@ gauge

NoChildren == << >>

-----------------------------------------------------------------------------
(* EnhancedGPUInference                                                    *)

\* get_total_gpu_memory: devices are read in order; a driver error on one
\* of them raises out of the loop (the result carries raised = TRUE).
RECURSIVE get_total_gpu_memory(_, _, _)
get_total_gpu_memory(st, rd, i) ==
    IF i >= device_count THEN st
    ELSE IF i \in rd.failing THEN [ st EXCEPT !.raised = TRUE ]
    ELSE LET mem_info == rd.gpu_stats[i]
         IN  get_total_gpu_memory(
                 [ st EXCEPT
                     !.gpu_memory_total_bytes = GaugeSet(@, i, mem_info.total),
                     !.gpu_memory_used_bytes = GaugeSet(@, i, mem_info.used),
                     !.gpu_memory_free_bytes =
                         GaugeSet(@, i, mem_info.total - mem_info.used),
                     !.memory_history =
                         [ @ EXCEPT ![i] = DequeAppend(@, mem_info.used) ] ],
                 rd, i + 1)

\* map_pid_to_container: the container id found in the process's cgroup
\* file, << >> for None
map_pid_to_container(rd, pid) == rd.cgroup[pid]

\* sum(p['memory_bytes'] for p in processes)
RECURSIVE SumMemory(_)
SumMemory(processes) ==
    IF processes = << >> THEN 0
    ELSE processes[1].memory_bytes + SumMemory(Tail(processes))

\* The processes of a list that map_pid_to_container maps to a container
MappedProcesses(rd, processes) ==
    LET Mapped(proc) == map_pid_to_container(rd, proc.pid) # << >>
    IN  SelectSeq(processes, Mapped)

\* A faulty KnownUsed, for contrast: only the mapped processes are counted.
KnownUsedMappedOnly(rd, gpu_idx) ==
    SumMemory(MappedProcesses(rd, rd.known_processes[gpu_idx]))

\* known_used = sum(p['memory_bytes'] for p in known_processes.get(gpu_idx, []))
KnownUsed(rd, gpu_idx) == SumMemory(rd.known_processes[gpu_idx])

\* calculate_inference, "Process known GPU usage": the processes of one
\* device, from the k-th on
RECURSIVE KnownProcesses(_, _, _, _, _)
KnownProcesses(st, rd, gpu_idx, k, known_memory) ==
    LET processes == rd.known_processes[gpu_idx]
    IN  IF k > Len(processes)
        THEN [ st EXCEPT
                 !.gpu_memory_known_bytes = GaugeSet(@, gpu_idx, known_memory) ]
        ELSE
          LET proc == processes[k]
              container == map_pid_to_container(rd, proc.pid)
              cid == container[1]
              st1 ==
                IF container = << >> THEN st
                ELSE [ st EXCEPT
                         !.known_container_ids = @ \cup { cid },
                         !.container_profiles =
                             IF cid \in DOMAIN @
                             THEN [ @ EXCEPT
                                      ![cid] = update(@, TRUE, proc.memory_bytes,
                                                      rd.time) ]
                             ELSE @,
                         !.profile_ops =
                             IF cid \in DOMAIN st.container_profiles
                             THEN Append(@, << "update", cid >>)
                             ELSE @,
                         !.container_gpu_memory_bytes =
                             GaugeSet(@, MemLabels(cid, gpu_idx, "nvidia-smi"),
                                      R(proc.memory_bytes)) ]
          IN  KnownProcesses(st1, rd, gpu_idx, k + 1,
                             known_memory + proc.memory_bytes)

\* for gpu_idx, processes in known_processes.items(): only the devices that
\* nvidia-smi listed a process for are keys of the dict
RECURSIVE KnownLoop(_, _, _)
KnownLoop(st, rd, gpu_idx) ==
    IF gpu_idx >= device_count THEN st
    ELSE IF rd.known_processes[gpu_idx] = << >>
         THEN KnownLoop(st, rd, gpu_idx + 1)
         ELSE KnownLoop(KnownProcesses(st, rd, gpu_idx, 1, 0), rd, gpu_idx + 1)

\* Two faulty UnknownUsed, for contrast: the clamp forgotten; the known
\* memory forgotten.
UnknownUsedUnclamped(total_used, known_used) == total_used - known_used

UnknownUsedIgnoringKnown(total_used, known_used) == Max0(total_used)

\* A faulty UnknownUsed, for contrast: no memory is ever unknown.
UnknownUsedNever(total_used, known_used) == 0

\* unknown_used = max(0, total_used - known_used)
UnknownUsed(total_used, known_used) == Max0(total_used - known_used)

\* A faulty UnknownContainers, for contrast: the attributed containers are
\* not left out.
UnknownContainersUnfiltered(gpu_containers, known_container_ids) ==
    gpu_containers

\* the list of containers that are not in known_container_ids
UnknownContainers(gpu_containers, known_container_ids) ==
    LET Unknown(c) == c \notin known_container_ids
    IN  SelectSeq(gpu_containers, Unknown)

\* get_container_weight, first half: the profile is created when missing
EnsureProfile(profiles, container_id) ==
    IF container_id \in DOMAIN profiles THEN profiles
    ELSE (container_id :> ContainerProfile(container_id, Name(container_id)))
         @@ profiles

\* A faulty ContainerWeight, for contrast: the doubling for LLM-named
\* containers is lost.
ContainerWeightNoNameMultiplier(profile, t) ==
    RAdd(R(1), get_gpu_likelihood_score(profile, t))

\* get_container_weight, second half: the weight of a profile at time t
ContainerWeight(profile, t) ==
    LET base_weight == IF profile.is_llm THEN R(2) ELSE R(1)
        likelihood == get_gpu_likelihood_score(profile, t)
    IN  RMul(base_weight, RAdd(R(1), likelihood))

\* A faulty AllocatedMemory, for contrast: the weight is not normalised.
AllocatedMemoryUnnormalised(unknown_memory, weight, total_weight) ==
    RMul(R(unknown_memory), weight)

\* allocated_memory = unknown_memory * (weight / total_weight)
AllocatedMemory(unknown_memory, weight, total_weight) ==
    RMul(R(unknown_memory), RDiv(weight, total_weight))

\* distribute_unknown_memory: the containers from the k-th on get a weight
RECURSIVE WeightLoop(_, _, _, _)
WeightLoop(st, rd, unknown_containers, k) ==
    IF k > Len(unknown_containers) THEN st
    ELSE
      LET cid == unknown_containers[k]
          profiles == EnsureProfile(st.container_profiles, cid)
          weight == ContainerWeight(profiles[cid], rd.time)
          likelihood == get_gpu_likelihood_score(profiles[cid], rd.time)
      IN  WeightLoop(
              [ st EXCEPT
                  !.container_profiles = profiles,
                  !.profile_ops = Append(@, << "score", cid >>),
                  !.weights = (cid :> weight) @@ @,
                  !.scores = (cid :> likelihood) @@ @,
                  !.total_weight = RAdd(@, weight),
                  !.container_gpu_score =
                      GaugeSet(@, ContainerLabels(cid), likelihood) ],
              rd, unknown_containers, k + 1)

\* distribute_unknown_memory: the containers from the k-th on get their share
RECURSIVE AllocateLoop(_, _, _, _, _)
AllocateLoop(st, unknown_memory, unknown_containers, gpu_idx, k) ==
    IF k > Len(unknown_containers) THEN st
    ELSE
      LET cid == unknown_containers[k]
          allocated_memory ==
              AllocatedMemory(unknown_memory, st.weights[cid], st.total_weight)
          st1 ==
            IF RLess(R(0), st.total_weight)
            THEN [ st EXCEPT
                     !.container_gpu_memory_bytes =
                         GaugeSet(@, MemLabels(cid, gpu_idx, "inference"),
                                  allocated_memory),
                     !.allocated = (cid :> allocated_memory) @@ @ ]
            ELSE st
      IN  AllocateLoop(st1, unknown_memory, unknown_containers, gpu_idx, k + 1)

distribute_unknown_memory(st, rd, unknown_memory, unknown_containers, gpu_idx) ==
    IF unknown_containers = << >> \/ unknown_memory <= 0 THEN st
    ELSE
      LET weighted == WeightLoop(st, rd, unknown_containers, 1)
      IN  AllocateLoop(weighted, unknown_memory, unknown_containers, gpu_idx, 1)

\* sum(history), from the k-th sample on
RECURSIVE SumHistory(_, _)
SumHistory(history, k) ==
    IF k > Len(history) THEN 0 ELSE history[k] + SumHistory(history, k + 1)

\* sum((x - avg) ** 2 for x in history), from the k-th sample on
RECURSIVE SumSquaredDeviations(_, _, _)
SumSquaredDeviations(history, avg, k) ==
    IF k > Len(history) THEN R(0)
    ELSE LET deviation == RSub(R(history[k]), avg)
             square == RMul(deviation, deviation)
         IN  RAdd(square, SumSquaredDeviations(history, avg, k + 1))

\* A faulty Stability, for contrast: the history is taken for steady.
StabilityTakenForGranted(history) == R(1)

\* calculate_inference_confidence: the stability of the used-memory history
Stability(history) ==
    LET n == Len(history)
        avg == Rat(SumHistory(history, 1), n)
        variance == RDiv(SumSquaredDeviations(history, avg, 1), R(n))
    IN  IF RLess(R(0), avg)
        THEN RDiv(R(1), RAdd(R(1), RDiv(variance, RMul(avg, avg))))
        ELSE R(1)

\* A faulty Confidence, for contrast: the share of the known memory is used.
ConfidenceOfKnownShare(history, unknown_memory, total_memory) ==
    IF total_memory = 0 THEN R(0)
    ELSE RSub(R(1), Rat(unknown_memory, total_memory))

\* calculate_inference_confidence: the value returned
Confidence(history, unknown_memory, total_memory) ==
    IF total_memory = 0 THEN R(0)
    ELSE LET unknown_ratio == Rat(unknown_memory, total_memory)
         IN  IF Len(history) > 10
             THEN RMul(unknown_ratio, Stability(history))
             ELSE RMul(unknown_ratio, << 1, 2 >>)

\* calculate_inference_confidence: the gauge is set unless total_memory == 0
calculate_inference_confidence(st, gpu_idx, unknown_memory, total_memory) ==
    IF total_memory = 0 THEN st
    ELSE [ st EXCEPT
             !.gpu_inference_confidence =
                 GaugeSet(@, gpu_idx,
                          Confidence(st.memory_history[gpu_idx], unknown_memory,
                                     total_memory)) ]

\* container_gpu_detected.labels(...).set(1) for every listed container
RECURSIVE DetectedLoop(_, _, _)
DetectedLoop(gauge, gpu_containers, k) ==
    IF k > Len(gpu_containers) THEN gauge
    ELSE DetectedLoop(GaugeSet(gauge, ContainerLabels(gpu_containers[k]), 1),
                      gpu_containers, k + 1)

\* "Update profile for unknown containers": update(False) on the k-th
\* unknown container and those after it
RECURSIVE UnknownProfilesLoop(_, _, _, _)
UnknownProfilesLoop(st, unknown_containers, t, k) ==
    IF k > Len(unknown_containers) THEN st
    ELSE LET cid == unknown_containers[k]
         IN  UnknownProfilesLoop(
                 IF cid \in DOMAIN st.container_profiles
                 THEN [ st EXCEPT
                          !.container_profiles =
                              [ @ EXCEPT ![cid] = update(@, FALSE, 0, t) ],
                          !.profile_ops = Append(@, << "update", cid >>) ]
                 ELSE st,
                 unknown_containers, t, k + 1)

\* gpu_inference_active is set when unknown_used > 0
InferenceActive(unknown_used) == unknown_used > 0

\* calculate_inference, "Process each GPU"
RECURSIVE GpuLoop(_, _, _)
GpuLoop(st, rd, gpu_idx) ==
    IF gpu_idx >= device_count THEN st
    ELSE
      LET total_used == rd.gpu_stats[gpu_idx].used
          known_used == KnownUsed(rd, gpu_idx)
          unknown_used == UnknownUsed(total_used, known_used)
          unknown_containers ==
              UnknownContainers(rd.gpu_containers, st.known_container_ids)
          st1 == UnknownProfilesLoop(
                     [ st EXCEPT
                         !.weights = NoChildren,
                         !.scores = NoChildren,
                         !.total_weight = R(0),
                         !.allocated = NoChildren,
                         !.gpu_memory_unknown_bytes =
                             GaugeSet(@, gpu_idx, unknown_used),
                         !.unknown_memory_histogram =
                             [ count |-> @.count + 1, sum |-> @.sum + unknown_used ],
                         !.container_gpu_detected =
                             DetectedLoop(@, rd.gpu_containers, 1) ],
                     unknown_containers, rd.time, 1)
          st2 ==
            IF InferenceActive(unknown_used)
            THEN distribute_unknown_memory(
                     calculate_inference_confidence(
                         [ st1 EXCEPT
                             !.gpu_inference_active = GaugeSet(@, gpu_idx, 1) ],
                         gpu_idx, unknown_used, total_used),
                     rd, unknown_used, unknown_containers, gpu_idx)
            ELSE [ st1 EXCEPT
                     !.gpu_inference_active = GaugeSet(@, gpu_idx, 0),
                     !.gpu_inference_confidence = GaugeSet(@, gpu_idx, R(0)) ]
          st3 == [ st2 EXCEPT
                     !.locals =
                         [ @ EXCEPT
                             ![gpu_idx] =
                                 [ total_used         |-> total_used,
                                   known_used         |-> known_used,
                                   unknown_used       |-> unknown_used,
                                   unknown_containers |-> unknown_containers,
                                   weights            |-> st2.weights,
                                   scores             |-> st2.scores,
                                   total_weight       |-> st2.total_weight,
                                   allocated          |-> st2.allocated ] ] ]
      IN  GpuLoop(st3, rd, gpu_idx + 1)

NoLocals ==
    [ gpu_idx \in Devices |->
        [ total_used |-> 0, known_used |-> 0, unknown_used |-> 0,
          unknown_containers |-> << >>, weights |-> NoChildren,
          scores |-> NoChildren, total_weight |-> R(0),
          allocated |-> NoChildren ] ]

\* calculate_inference: an exception of the device read ends the call
calculate_inference(st, rd) ==
    LET started == [ st EXCEPT !.raised = FALSE, !.known_container_ids = {},
                               !.locals = NoLocals, !.profile_ops = << >> ]
        read == get_total_gpu_memory(started, rd, 0)
    IN  IF read.raised THEN read
        ELSE GpuLoop(KnownLoop(read, rd, 0), rd, 0)

-----------------------------------------------------------------------------
(* What the collaborators can return in one cycle.                         *)

\* /host/proc/<pid>/cgroup: the container a process belongs to.  Processes
\* 101 and 102 run in a1, 201 in b2, 301 in c3; 900 is a process of the
\* host (no docker id in its cgroup: map_pid_to_container returns None).
Cgroup ==
    [ pid \in { 101, 102, 201, 301, 900 } |->
        CASE pid \in { 101, 102 } -> << "a1" >>
          [] pid = 201 -> << "b2" >>
          [] pid = 301 -> << "c3" >>
          [] OTHER -> << >> ]

Proc(pid, memory) == [ pid |-> pid, memory_bytes |-> memory ]

\* mem_info of one device (16 GiB boards)
MemInfo(used) == [ total |-> 16384, used |-> used ]

\* get_containers_with_gpu_access: the containers docker lists with GPU
\* access; when docker ps cannot be run the exception is logged and the
\* list is empty
get_containers_with_gpu_access(docker_ps, listed) ==
    IF docker_ps = "error" THEN << >> ELSE listed

Reading(dt, used, processes, gpu_containers, failing) ==
    [ dt              |-> dt,
      gpu_stats       |-> [ i \in Devices |-> MemInfo(used[i + 1]) ],
      known_processes |-> [ i \in Devices |-> processes[i + 1] ],
      cgroup          |-> Cgroup,
      docker_ps       |-> "ok",
      gpu_containers  |-> get_containers_with_gpu_access("ok", gpu_containers),
      failing         |-> failing ]

\* The same reading in a cycle whose docker ps raises
ListingFailed(rd) ==
    [ rd EXCEPT !.docker_ps = "error",
                !.gpu_containers = get_containers_with_gpu_access("error", @) ]

\* used memory of device 0 and device 1
WideUsed == { << 0, 0 >>, << 60, 0 >>, << 10240, 0 >>, << 10240, 200 >> }

\* nvidia-smi's process list of device 0 and device 1
WideProcesses ==
    { << << >>, << >> >>,
      << << Proc(101, 2048) >>, << >> >>,
      << << Proc(900, 100) >>, << >> >>,
      << << Proc(201, 512) >>, << >> >>,
      << << Proc(101, 2048), Proc(102, 1024) >>, << >> >> }

WideContainers == { << >>, << "a1", "b2", "c3" >> }

WideReadings ==
    { Reading(SCRAPE_INTERVAL, u, p, c, {}) :
        u \in WideUsed, p \in WideProcesses, c \in WideContainers }
    \cup
    { Reading(SCRAPE_INTERVAL, << 10240, 200 >>, p, << "a1", "b2", "c3" >>, f) :
        p \in { << << >>, << >> >>, << << Proc(101, 2048) >>, << >> >> },
        f \in { { 0 }, { 1 } } }
    \cup
    { Reading(SCRAPE_INTERVAL, << 10240, 0 >>,
              << << Proc(101, 2048) >>, << >> >>, << "a1" >>, {}) }
    \cup
    { ListingFailed(Reading(SCRAPE_INTERVAL, << 10240, 0 >>, p,
                            << "a1", "b2", "c3" >>, {})) :
        p \in { << << >>, << >> >>, << << Proc(101, 2048) >>, << >> >> } }

\* The readings of a longer run: the 16 GiB scenario (a1 attributed, b2
\* and c3 unresolved), b2 attributed, both devices with unknown memory 150 s
\* later, and an idle host 300 s later.
DeepReadings ==
    { Reading(SCRAPE_INTERVAL, << 10240, 0 >>,
              << << Proc(101, 2048) >>, << >> >>, << "a1", "b2", "c3" >>, {}),
      Reading(SCRAPE_INTERVAL, << 10240, 0 >>,
              << << Proc(201, 512) >>, << >> >>, << "a1", "b2", "c3" >>, {}),
      Reading(150, << 600, 60 >>, << << >>, << >> >>, << "b2", "c3" >>, {}),
      Reading(300, << 0, 0 >>, << << >>, << >> >>, << "a1", "b2", "c3" >>, {}) }

\* The readings of a run long enough to fill the used-memory history: a busy
\* cycle (device 0: 300 MiB used, 100 of them a1's; device 1: 100 MiB used)
\* and a quiet one (device 0: 100 MiB used, device 1 idle).
LongReadings ==
    { Reading(SCRAPE_INTERVAL, << 300, 100 >>,
              << << Proc(101, 100) >>, << >> >>, << "a1", "b2", "c3" >>, {}),
      Reading(SCRAPE_INTERVAL, << 100, 0 >>,
              << << >>, << >> >>, << "a1", "b2", "c3" >>, {}) }

NoReadings == Reading(0, << 0, 0 >>, << << >>, << >> >>, << >>, {})

-----------------------------------------------------------------------------
(* The Ollama exporters: the probing InferenceDetector of                  *)
(* enhanced_ollama_exporter.py and the OllamaCollector of                  *)
(* ollama_exporter.py.  Their clock counts seconds; the response time of a *)
(* request is given in milliseconds and does not move the clock.           *)

INFERENCE_CHECK_INTERVAL == 2

\* SCRAPE_INTERVAL of enhanced_ollama_exporter.py
MONITOR_SCRAPE_INTERVAL == 5

\* SCRAPE_INTERVAL of ollama_exporter.py
COLLECTOR_SCRAPE_INTERVAL == 15

\* InferenceDetector.__init__ and the gauges of enhanced_ollama_exporter.py
InferenceDetector ==
    [ inference_history                |-> << >>,
      ollama_up                        |-> 0,
      ollama_inference_active          |-> 0,
      ollama_gpu_likely_active         |-> R(0),
      ollama_last_inference_timestamp  |-> 0,
      ollama_inference_requests_total  |-> 0 ]

\* deque(maxlen=10).append
InferenceHistoryAppend(inference_history, t) ==
    LET a == Append(inference_history, t)
    IN  IF Len(a) > 10 THEN Tail(a) ELSE a

\* A faulty mark_inference_active, for contrast: the gauge is left alone.
mark_inference_recorded(d, current_time) ==
    [ d EXCEPT
        !.inference_history = Append(@, current_time),
        !.ollama_last_inference_timestamp = current_time,
        !.ollama_inference_requests_total = @ + 1 ]

\* InferenceDetector.mark_inference_active at time current_time
mark_inference_active(d, current_time) ==
    [ d EXCEPT
        !.inference_history = InferenceHistoryAppend(@, current_time),
        !.ollama_inference_active = 1,
        !.ollama_gpu_likely_active = R(1),
        !.ollama_last_inference_timestamp = current_time,
        !.ollama_inference_requests_total = @ + 1 ]

\* InferenceDetector.mark_inference_likely_active
mark_inference_likely_active(d, likelihood) ==
    [ d EXCEPT !.ollama_gpu_likely_active = likelihood ]

\* max(recent_inferences)
RECURSIVE MaxOf(_)
MaxOf(times) ==
    IF Len(times) = 1 THEN times[1]
    ELSE LET m == MaxOf(Tail(times))
         IN  IF times[1] > m THEN times[1] ELSE m

\* InferenceDetector.update_status at time current_time
update_status(d, current_time) ==
    LET Recent(t) == current_time - t < 30
        recent_inferences == SelectSeq(d.inference_history, Recent)
    IN  IF recent_inferences # << >>
        THEN LET time_since_last == current_time - MaxOf(recent_inferences)
                 decayed == Rat(30 - time_since_last, 30)
                 likelihood == IF RLess(decayed, R(0)) THEN R(0) ELSE decayed
             IN  [ d EXCEPT !.ollama_inference_active = 1,
                            !.ollama_gpu_likely_active = likelihood ]
        ELSE [ d EXCEPT !.ollama_inference_active = 0,
                        !.ollama_gpu_likely_active = R(0) ]

\* What requests.post(.../api/generate, timeout=0.5) can do: answer after
\* response_time ms, raise Timeout, or raise another exception
GenerateOutcomes ==
    { [ kind |-> "response", response_time |-> 100 ],
      [ kind |-> "response", response_time |-> 400 ],
      [ kind |-> "timeout", response_time |-> 500 ],
      [ kind |-> "error", response_time |-> 0 ] }

\* What requests.get(.../api/tags, timeout=1) of check_inference can do
TagsOutcomes ==
    { [ kind |-> "response", response_time |-> 100 ],
      [ kind |-> "response", response_time |-> 600 ],
      [ kind |-> "error", response_time |-> 0 ] }

\* OllamaCollector.__init__ and the gauges of ollama_exporter.py
OllamaCollector ==
    [ last_inference_time              |-> 0,
      ollama_up                        |-> 0,
      ollama_inference_active          |-> 0,
      ollama_last_inference_timestamp  |-> 0 ]

\* What requests.get(.../api/ps, timeout=2) can do: 200 with or without
\* running models, another status, or an exception
PsOutcomes == { "models", "no models", "status", "error" }

\* Both exporters are about to run their first pass; generate, tags and ps
\* are what the latest request of each kind did
NoThreads ==
    [ probe_pc |-> "generate", probes |-> 0, probe_wake |-> 0,
      monitor_wake |-> 0, collector_wake |-> 0,
      generate |-> [ kind |-> "none", response_time |-> 0 ],
      tags |-> [ kind |-> "none", response_time |-> 0 ],
      ps |-> "none" ]

-----------------------------------------------------------------------------
(* The mega exporter (src/aura-simple) and the LLM metrics services        *)
(* (src/llm-metrics-exporter).                                             *)

\* HistoricalData(max_points): the model keeps fewer points than the
\* default of 300, so that the oldest point is dropped within a run
max_points == 3

\* metrics_data and historical_data of mega_exporter.py as the module
\* creates them, and its threads before main() runs.  recorded keeps, for
\* every metric, the timestamp and the value of each append.
MegaExporter ==
    [ main_pc       |-> "start",
      loop_pc       |-> "not started",
      loop_wake     |-> 0,
      collections   |-> 0,
      metrics_data  |-> [ system |-> << >>, docker |-> << >>, gpu |-> << >> ],
      timestamps    |-> << >>,
      data          |-> << >>,
      recorded      |-> << >> ]

\* RequestTracker.__init__ and the metrics of llm_metrics_exporter.py that
\* a tracker sets, each keyed by its label values (the gauge active_requests
\* is active_requests_gauge here, the dict self.active_requests keeps its
\* name)
RequestTracker ==
    [ active_requests        |-> << >>,
      active_requests_gauge  |-> << >>,
      tokens_per_second      |-> << >>,
      inference_latency      |-> << >>,
      tokens_generated_total |-> << >>,
      prompt_tokens_total    |-> << >>,
      response_tokens_total  |-> << >>,
      inference_errors       |-> << >> ]

\* The label values of a request's metrics
RequestLabels(req) ==
    [ model |-> req.model, container |-> req.container,
      endpoint |-> req.endpoint ]

\* metric.labels(...).inc(amount), also .dec() as inc(-1) and, for a
\* histogram's sum, .observe(amount): the child starts at 0
Inc(metric, labels, amount) ==
    (labels :> ((IF labels \in DOMAIN metric THEN metric[labels] ELSE 0) + amount))
        @@ metric

\* del d[key]
Del(d, key) == [ k \in (DOMAIN d) \ { key } |-> d[k] ]

\* RequestTracker.start_request at time t
start_request(tr, request_id, model, container, endpoint, t) ==
    LET req == [ start_time |-> t, model |-> model, container |-> container,
                 endpoint |-> endpoint, tokens_generated |-> 0 ]
    IN  [ tr EXCEPT
            !.active_requests = (request_id :> req) @@ @,
            !.active_requests_gauge = Inc(@, RequestLabels(req), 1) ]

\* RequestTracker.update_tokens at time t
update_tokens(tr, request_id, tokens, t) ==
    IF request_id \notin DOMAIN tr.active_requests THEN tr
    ELSE LET req == [ tr.active_requests[request_id] EXCEPT
                        !.tokens_generated = @ + tokens ]
             elapsed == t - req.start_time
         IN  [ tr EXCEPT
                 !.active_requests = (request_id :> req) @@ @,
                 !.tokens_per_second =
                     IF elapsed > 0
                     THEN GaugeSet(@, RequestLabels(req),
                                   Rat(req.tokens_generated, elapsed))
                     ELSE @ ]

\* RequestTracker.end_request at time t; error is "" for None
end_request(tr, request_id, prompt_tokens, response_tokens, error, t) ==
    IF request_id \notin DOMAIN tr.active_requests THEN tr
    ELSE LET req == tr.active_requests[request_id]
             labels == RequestLabels(req)
             elapsed == t - req.start_time
             counted ==
               IF error = ""
               THEN [ tr EXCEPT
                        !.inference_latency = Inc(@, labels, elapsed),
                        !.tokens_generated_total =
                            Inc(@, labels, prompt_tokens + response_tokens),
                        !.prompt_tokens_total = Inc(@, labels, prompt_tokens),
                        !.response_tokens_total = Inc(@, labels, response_tokens) ]
               ELSE [ tr EXCEPT
                        !.inference_errors =
                            Inc(@, [ model |-> req.model,
                                     container |-> req.container,
                                     error_type |-> error ], 1) ]
         IN  [ counted EXCEPT
                 !.active_requests_gauge = Inc(@, labels, -1),
                 !.active_requests = Del(@, request_id) ]

\* OllamaInferenceWrapper.__init__ and the queue_size gauge; in_flight holds
\* the handle_generate coroutines that have not returned yet, responses the
\* status of the response each request got, arrived counts the requests
OllamaInferenceWrapper ==
    [ pending_requests |-> << >>,
      model_load_times |-> {},
      queue_size       |-> << >>,
      in_flight        |-> << >>,
      responses        |-> << >>,
      arrived          |-> 0 ]

ServicesInit ==
    /\ mega = MegaExporter
    /\ tracker = RequestTracker
    /\ wrapper = OllamaInferenceWrapper

-----------------------------------------------------------------------------
(* The state machine.                                                      *)

\* EnhancedGPUInference.__init__ and the module's gauges
Init ==
    /\ now = 0
    /\ cycle = 0
    /\ outcome = "none"
    /\ readings = NoReadings
    /\ container_profiles = NoChildren
    /\ memory_history = [ i \in Devices |-> << >> ]
    /\ gpu_memory_total_bytes = NoChildren
    /\ gpu_memory_used_bytes = NoChildren
    /\ gpu_memory_free_bytes = NoChildren
    /\ gpu_memory_known_bytes = NoChildren
    /\ gpu_memory_unknown_bytes = NoChildren
    /\ container_gpu_memory_bytes = NoChildren
    /\ container_gpu_score = NoChildren
    /\ container_gpu_detected = NoChildren
    /\ gpu_inference_active = NoChildren
    /\ gpu_inference_confidence = NoChildren
    /\ unknown_memory_histogram = [ count |-> 0, sum |-> 0 ]
    /\ locals = NoLocals
    /\ profile_ops = << >>
    /\ detector = InferenceDetector
    /\ collector = OllamaCollector
    /\ threads = NoThreads
    /\ ServicesInit

\* The engine's state as one record, as calculate_inference finds it
Engine ==
    [ container_profiles         |-> container_profiles,
      memory_history             |-> memory_history,
      gpu_memory_total_bytes     |-> gpu_memory_total_bytes,
      gpu_memory_used_bytes      |-> gpu_memory_used_bytes,
      gpu_memory_free_bytes      |-> gpu_memory_free_bytes,
      gpu_memory_known_bytes     |-> gpu_memory_known_bytes,
      gpu_memory_unknown_bytes   |-> gpu_memory_unknown_bytes,
      container_gpu_memory_bytes |-> container_gpu_memory_bytes,
      container_gpu_score        |-> container_gpu_score,
      container_gpu_detected     |-> container_gpu_detected,
      gpu_inference_active       |-> gpu_inference_active,
      gpu_inference_confidence   |-> gpu_inference_confidence,
      unknown_memory_histogram   |-> unknown_memory_histogram,
      locals                     |-> locals,
      profile_ops                |-> profile_ops,
      known_container_ids        |-> {},
      weights                    |-> NoChildren,
      scores                     |-> NoChildren,
      total_weight               |-> R(0),
      allocated                  |-> NoChildren,
      raised                     |-> FALSE ]

\* A faulty main(), for contrast: the exception of a call ends the loop.
LoopEndsOnError(previous) == previous # "error"

\* main(): `except Exception` around calculate_inference() logs the error,
\* so the loop makes its next pass however the pass before it ended
LoopGoesOn(previous) == previous \in { "none", "ok", "error" }

\* One pass of main()'s loop: calculate_inference() inside try/except, then
\* time.sleep(SCRAPE_INTERVAL).  rd is what the driver, nvidia-smi, docker
\* and /proc return during the call.
Cycle(rd) ==
    LoopGoesOn(outcome) /\
    \E t \in { now + rd.dt } :
    \E st \in { calculate_inference(Engine, rd @@ [ time |-> t ]) } :
        /\ now' = t
        /\ cycle' = cycle + 1
        /\ outcome' = IF st.raised THEN "error" ELSE "ok"
        /\ readings' = rd
        /\ container_profiles' = st.container_profiles
        /\ memory_history' = st.memory_history
        /\ gpu_memory_total_bytes' = st.gpu_memory_total_bytes
        /\ gpu_memory_used_bytes' = st.gpu_memory_used_bytes
        /\ gpu_memory_free_bytes' = st.gpu_memory_free_bytes
        /\ gpu_memory_known_bytes' = st.gpu_memory_known_bytes
        /\ gpu_memory_unknown_bytes' = st.gpu_memory_unknown_bytes
        /\ container_gpu_memory_bytes' = st.container_gpu_memory_bytes
        /\ container_gpu_score' = st.container_gpu_score
        /\ container_gpu_detected' = st.container_gpu_detected
        /\ gpu_inference_active' = st.gpu_inference_active
        /\ gpu_inference_confidence' = st.gpu_inference_confidence
        /\ unknown_memory_histogram' = st.unknown_memory_histogram
        /\ locals' = st.locals
        /\ profile_ops' = st.profile_ops
        /\ UNCHANGED ollama_vars
        /\ UNCHANGED service_vars

Next == \E rd \in WideReadings : cycle < MaxCycles /\ Cycle(rd)

Spec == Init /\ [][Next]_vars

NextDeep == \E rd \in DeepReadings : cycle < MaxDeepCycles /\ Cycle(rd)

SpecDeep == Init /\ [][NextDeep]_vars

NextLong == \E rd \in LongReadings : cycle < MaxLongCycles /\ Cycle(rd)

SpecLong == Init /\ [][NextLong]_vars

-----------------------------------------------------------------------------
(* ContainerProfile on its own: four profiles that are fed observations    *)
(* and asked for their score, whatever the engine would make of them.      *)

\* The profiles: d4 "ollama-worker" and e5 "nginx" are observed alike, f6 is
\* always seen on the GPU, g7 never with memory.
Profiled == { "d4", "e5", "f6", "g7" }

Seen(has_visible_gpu, memory_bytes) ==
    [ has_visible_gpu |-> has_visible_gpu, memory_bytes |-> memory_bytes ]

\* What one round of update() calls can pass, and the time.time() that has
\* gone by since the round before
ProfileObservations ==
    { [ dt |-> 100,
        seen |-> [ c \in Profiled |->
                     CASE c = "f6" -> Seen(TRUE, 512)
                       [] c = "g7" -> Seen(FALSE, 0)
                       [] OTHER -> Seen(FALSE, 0) ] ],
      [ dt |-> 10,
        seen |-> [ c \in Profiled |->
                     CASE c = "f6" -> Seen(TRUE, 2048)
                       [] c = "g7" -> Seen(TRUE, 0)
                       [] OTHER -> Seen(TRUE, 1024) ] ] }

\* ContainerProfile(container_id, container_name) for each of them
InitProfile ==
    /\ now = 0
    /\ cycle = 0
    /\ outcome = "none"
    /\ readings = NoReadings
    /\ container_profiles = [ c \in Profiled |-> ContainerProfile(c, Name(c)) ]
    /\ memory_history = [ i \in Devices |-> << >> ]
    /\ gpu_memory_total_bytes = NoChildren
    /\ gpu_memory_used_bytes = NoChildren
    /\ gpu_memory_free_bytes = NoChildren
    /\ gpu_memory_known_bytes = NoChildren
    /\ gpu_memory_unknown_bytes = NoChildren
    /\ container_gpu_memory_bytes = NoChildren
    /\ container_gpu_score = NoChildren
    /\ container_gpu_detected = NoChildren
    /\ gpu_inference_active = NoChildren
    /\ gpu_inference_confidence = NoChildren
    /\ unknown_memory_histogram = [ count |-> 0, sum |-> 0 ]
    /\ locals = NoLocals
    /\ profile_ops = << >>
    /\ detector = InferenceDetector
    /\ collector = OllamaCollector
    /\ threads = NoThreads
    /\ ServicesInit

\* profile.update(has_visible_gpu, memory_bytes) on every profile
Observe(o) ==
    /\ cycle < MaxObservations
    /\ now' = now + o.dt
    /\ cycle' = cycle + 1
    /\ container_profiles' =
           [ c \in Profiled |->
               update(container_profiles[c], o.seen[c].has_visible_gpu,
                      o.seen[c].memory_bytes, now') ]
    /\ UNCHANGED << outcome, readings, memory_history, gpu_memory_total_bytes,
                    gpu_memory_used_bytes, gpu_memory_free_bytes,
                    gpu_memory_known_bytes, gpu_memory_unknown_bytes,
                    container_gpu_memory_bytes, container_gpu_score,
                    container_gpu_detected, gpu_inference_active,
                    gpu_inference_confidence, unknown_memory_histogram,
                    locals, profile_ops, detector, collector, threads,
                    mega, tracker, wrapper >>

\* container_gpu_score.labels(...).set(profile.get_gpu_likelihood_score())
\* for every profile
Score ==
    /\ container_gpu_score' =
           [ l \in { ContainerLabels(c) : c \in Profiled } |->
               get_gpu_likelihood_score(container_profiles[l.container_id], now) ]
    /\ container_gpu_score' # container_gpu_score
    /\ UNCHANGED << now, cycle, outcome, readings, container_profiles,
                    memory_history, gpu_memory_total_bytes,
                    gpu_memory_used_bytes, gpu_memory_free_bytes,
                    gpu_memory_known_bytes, gpu_memory_unknown_bytes,
                    container_gpu_memory_bytes, container_gpu_detected,
                    gpu_inference_active, gpu_inference_confidence,
                    unknown_memory_histogram, locals, profile_ops, detector,
                    collector, threads, mega, tracker, wrapper >>

NextProfile ==
    \/ \E o \in ProfileObservations : Observe(o)
    \/ Score

SpecProfile == InitProfile /\ [][NextProfile]_vars

-----------------------------------------------------------------------------
(* The two Ollama exporters at work: the probe thread and the main loop of *)
(* enhanced_ollama_exporter.py, and the main loop of ollama_exporter.py.   *)
(* A loop that has slept its interval runs before the clock moves on.      *)

\* time.time() when the exporters start
StartTime == 1000

InitProbe ==
    /\ now = StartTime
    /\ cycle = 0
    /\ outcome = "none"
    /\ readings = NoReadings
    /\ container_profiles = NoChildren
    /\ memory_history = [ i \in Devices |-> << >> ]
    /\ gpu_memory_total_bytes = NoChildren
    /\ gpu_memory_used_bytes = NoChildren
    /\ gpu_memory_free_bytes = NoChildren
    /\ gpu_memory_known_bytes = NoChildren
    /\ gpu_memory_unknown_bytes = NoChildren
    /\ container_gpu_memory_bytes = NoChildren
    /\ container_gpu_score = NoChildren
    /\ container_gpu_detected = NoChildren
    /\ gpu_inference_active = NoChildren
    /\ gpu_inference_confidence = NoChildren
    /\ unknown_memory_histogram = [ count |-> 0, sum |-> 0 ]
    /\ locals = NoLocals
    /\ profile_ops = << >>
    /\ detector = InferenceDetector
    /\ collector = OllamaCollector
    /\ threads = [ NoThreads EXCEPT !.probe_wake = StartTime,
                                    !.monitor_wake = StartTime,
                                    !.collector_wake = StartTime ]
    /\ ServicesInit

\* The probe thread is at the start of a round it may run now; the rounds
\* after the first MaxProbes find a quick backend and change nothing
ProbeDue ==
    /\ threads.probe_pc = "generate"
    /\ threads.probes < MaxProbes
    /\ threads.probe_wake <= now

\* check_inference, method 1: the minimal generate request
check_inference_generate(o) ==
    /\ ProbeDue
    /\ detector' =
           IF \/ o.kind = "timeout"
              \/ o.kind = "response" /\ o.response_time > 300
           THEN mark_inference_active(detector, now)
           ELSE detector
    /\ threads' = [ threads EXCEPT !.probe_pc = "tags", !.generate = o ]
    /\ UNCHANGED << now, collector >>
    /\ UNCHANGED engine_vars
    /\ UNCHANGED service_vars

\* check_inference, method 2: the tags request; then inference_check_loop
\* sleeps INFERENCE_CHECK_INTERVAL
check_inference_tags(o) ==
    /\ threads.probe_pc = "tags"
    /\ detector' =
           IF o.kind = "response" /\ o.response_time > 500
           THEN mark_inference_likely_active(detector, << 7, 10 >>)
           ELSE detector
    /\ threads' = [ threads EXCEPT !.probe_pc = "generate",
                                   !.tags = o,
                                   !.probes = @ + 1,
                                   !.probe_wake = now + INFERENCE_CHECK_INTERVAL ]
    /\ UNCHANGED << now, collector >>
    /\ UNCHANGED engine_vars
    /\ UNCHANGED service_vars

\* OllamaMonitor.collect_metrics: ollama_up from the tags request, then
\* update_status; then main() sleeps SCRAPE_INTERVAL
collect_metrics(up) ==
    /\ threads.monitor_wake <= now
    /\ detector' = update_status([ detector EXCEPT !.ollama_up = up ], now)
    /\ threads' = [ threads EXCEPT !.monitor_wake = now + MONITOR_SCRAPE_INTERVAL ]
    /\ UNCHANGED << now, collector >>
    /\ UNCHANGED engine_vars
    /\ UNCHANGED service_vars

\* OllamaCollector.collect: ollama_up from the tags request, then the
\* running models of /api/ps; then main() sleeps SCRAPE_INTERVAL
collect(up, ps) ==
    /\ threads.collector_wake <= now
    /\ collector' =
           LET c == [ collector EXCEPT !.ollama_up = up ]
           IN  CASE ps = "models" ->
                      [ c EXCEPT !.ollama_inference_active = 1,
                                 !.last_inference_time = now,
                                 !.ollama_last_inference_timestamp = now ]
                 [] ps = "no models" ->
                      [ c EXCEPT !.ollama_inference_active = 0 ]
                 [] ps = "status" -> c
                 [] ps = "error" ->
                      IF now - c.last_inference_time > 60
                      THEN [ c EXCEPT !.ollama_inference_active = 0 ]
                      ELSE c
    /\ threads' = [ threads EXCEPT
                      !.ps = ps,
                      !.collector_wake = now + COLLECTOR_SCRAPE_INTERVAL ]
    /\ UNCHANGED << now, detector >>
    /\ UNCHANGED engine_vars
    /\ UNCHANGED service_vars

\* time.sleep: a second goes by while every loop sleeps
Tick ==
    /\ ~ProbeDue
    /\ threads.probe_pc = "generate"
    /\ threads.monitor_wake > now
    /\ threads.collector_wake > now
    /\ now - StartTime < MaxClock
    /\ now' = now + 1
    /\ UNCHANGED ollama_vars
    /\ UNCHANGED engine_vars
    /\ UNCHANGED service_vars

NextProbe ==
    \/ \E o \in GenerateOutcomes : check_inference_generate(o)
    \/ \E o \in TagsOutcomes : check_inference_tags(o)
    \/ \E up \in { 0, 1 } : collect_metrics(up)
    \/ \E up \in { 0, 1 } : \E ps \in PsOutcomes : collect(up, ps)
    \/ Tick

SpecProbe == InitProbe /\ [][NextProbe]_vars

-----------------------------------------------------------------------------
(* The mega exporter at work: main() starts the collection thread, makes   *)
(* its own first collection and serves; start_collection_loop collects and *)
(* sleeps.  A call of collect_all_metrics takes two steps, the start of its *)
(* five worker threads and the end of their join.                          *)

\* COLLECTION_INTERVAL (default 15)
COLLECTION_INTERVAL == 15

\* calls of collect_all_metrics explored under SpecMega
MaxCollections == 5

\* deque(maxlen=maxlen).append
deque_append(d, x, maxlen) ==
    LET a == Append(d, x)
    IN  IF Len(a) > maxlen THEN Tail(a) ELSE a

\* self.data[metric].append(value): a defaultdict of bounded deques
data_append(data, metric, value) ==
    (metric :> deque_append(IF metric \in DOMAIN data THEN data[metric] ELSE << >>,
                            value, max_points))
        @@ data

\* The names of the metrics of one GPU and of one container that the model
\* follows (temperature, power, memory are appended alongside them)
GpuMetric(gpu_idx) == "gpu_" \o ToString(gpu_idx) \o "_utilization"

ContainerMetric(name) == "container_" \o name \o "_cpu"

\* The appends add_data_point makes for metrics_data, in program order, as
\* pairs << metric, value >>: the system group whenever the key is there
\* (it always is), the GPU group when the list is not empty, the docker
\* group with one entry per container
RECURSIVE GpuPoints(_)
GpuPoints(gpus) ==
    IF gpus = << >> THEN << >>
    ELSE << << GpuMetric(gpus[1].index), gpus[1].utilization >> >>
             \o GpuPoints(Tail(gpus))

RECURSIVE ContainerPoints(_)
ContainerPoints(containers) ==
    IF containers = << >> THEN << >>
    ELSE << << ContainerMetric(containers[1].name), containers[1].cpu_percent >> >>
             \o ContainerPoints(Tail(containers))

DataPoints(metrics_data) ==
    << << "cpu_percent",
          IF "cpu_percent" \in DOMAIN metrics_data.system
          THEN metrics_data.system.cpu_percent
          ELSE 0 >> >>
        \o GpuPoints(metrics_data.gpu)
        \o << << "total_containers", Len(metrics_data.docker) >> >>
        \o ContainerPoints(metrics_data.docker)

\* The appends of one add_data_point, applied in order
RECURSIVE AppendPoints(_, _, _)
AppendPoints(h, points, timestamp) ==
    IF points = << >> THEN h
    ELSE AppendPoints(
             [ h EXCEPT
                 !.data = data_append(@, points[1][1], points[1][2]),
                 !.recorded = data_append(@, points[1][1],
                                          << timestamp, points[1][2] >>) ],
             Tail(points), timestamp)

\* HistoricalData.add_data_point at time t (seconds): the timestamp is in
\* milliseconds
add_data_point(h, metrics_data, t) ==
    LET timestamp == t * 1000
    IN  AppendPoints(
            [ h EXCEPT !.timestamps = deque_append(@, timestamp, max_points) ],
            DataPoints(metrics_data), timestamp)

\* HistoricalData.get_time_series(metric_name) at time t, with the default
\* time_range_minutes = 5: the points << x, y >> it returns
RECURSIVE TimeSeriesFrom(_, _, _, _)
TimeSeriesFrom(timestamps, values, cutoff, i) ==
    IF i > Len(timestamps) THEN << >>
    ELSE (IF timestamps[i] >= cutoff /\ i <= Len(values)
          THEN << [ x |-> timestamps[i], y |-> values[i] ] >>
          ELSE << >>)
             \o TimeSeriesFrom(timestamps, values, cutoff, i + 1)

get_time_series(h, metric_name, t) ==
    LET cutoff == t * 1000 - 5 * 60 * 1000
        values == IF metric_name \in DOMAIN h.data THEN h.data[metric_name]
                  ELSE << >>
    IN  TimeSeriesFrom(h.timestamps, values, cutoff, 1)

\* What the worker threads of one collect_all_metrics call store into
\* metrics_data: a worker whose collection raises stores nothing ("kept")
Stores(value) == [ stored |-> TRUE, value |-> value ]

Raises == [ stored |-> FALSE, value |-> << >> ]

WorkerResults ==
    { [ system |-> Stores([ cpu_percent |-> 10 ]),
        gpu    |-> Raises,
        docker |-> Stores(<< >>) ],
      [ system |-> Stores([ cpu_percent |-> 90 ]),
        gpu    |-> Stores(<< [ index |-> 0, utilization |-> 50 ] >>),
        docker |-> Stores(<< [ name |-> "web", cpu_percent |-> 5 ] >>) ],
      [ system |-> Raises,
        gpu    |-> Stores(<< [ index |-> 0, utilization |-> 70 ] >>),
        docker |-> Raises ] }

Stored(old, result) == IF result.stored THEN result.value ELSE old

\* The state in which the mega exporter and the LLM metrics services start
InitServices ==
    /\ now = StartTime
    /\ cycle = 0
    /\ outcome = "none"
    /\ readings = NoReadings
    /\ container_profiles = NoChildren
    /\ memory_history = [ i \in Devices |-> << >> ]
    /\ gpu_memory_total_bytes = NoChildren
    /\ gpu_memory_used_bytes = NoChildren
    /\ gpu_memory_free_bytes = NoChildren
    /\ gpu_memory_known_bytes = NoChildren
    /\ gpu_memory_unknown_bytes = NoChildren
    /\ container_gpu_memory_bytes = NoChildren
    /\ container_gpu_score = NoChildren
    /\ container_gpu_detected = NoChildren
    /\ gpu_inference_active = NoChildren
    /\ gpu_inference_confidence = NoChildren
    /\ unknown_memory_histogram = [ count |-> 0, sum |-> 0 ]
    /\ locals = NoLocals
    /\ profile_ops = << >>
    /\ detector = InferenceDetector
    /\ collector = OllamaCollector
    /\ threads = NoThreads
    /\ ServicesInit

\* main(): collection_thread.start()
start_collection_thread ==
    /\ mega.main_pc = "start"
    /\ mega' = [ mega EXCEPT !.main_pc = "initial collection",
                             !.loop_pc = "ready",
                             !.loop_wake = now ]
    /\ UNCHANGED << now, tracker, wrapper >>
    /\ UNCHANGED engine_vars
    /\ UNCHANGED ollama_vars

\* A thread may enter collect_all_metrics: main() for its initial
\* collection, the loop when its sleep is over
MayCollect(thread) ==
    IF thread = "main" THEN mega.main_pc = "initial collection"
    ELSE mega.loop_pc = "ready" /\ mega.loop_wake <= now

PcOf(thread) == IF thread = "main" THEN mega.main_pc ELSE mega.loop_pc

\* collect_all_metrics, first half: the worker threads are started
collect_all_metrics_start(thread) ==
    /\ MayCollect(thread)
    /\ mega.collections < MaxCollections
    /\ mega' = IF thread = "main"
               THEN [ mega EXCEPT !.main_pc = "collecting" ]
               ELSE [ mega EXCEPT !.loop_pc = "collecting" ]
    /\ UNCHANGED << now, tracker, wrapper >>
    /\ UNCHANGED engine_vars
    /\ UNCHANGED ollama_vars

\* collect_all_metrics, second half: the workers are joined, having stored
\* result, and update_historical_data adds the data point; main() goes on
\* to app.run, the loop sleeps COLLECTION_INTERVAL
collect_all_metrics_join(thread, result) ==
    /\ PcOf(thread) = "collecting"
    /\ \E metrics_data \in
           { [ system |-> Stored(mega.metrics_data.system, result.system),
               gpu    |-> Stored(mega.metrics_data.gpu, result.gpu),
               docker |-> Stored(mega.metrics_data.docker, result.docker) ] } :
       \E h \in { add_data_point(mega, metrics_data, now) } :
           mega' = IF thread = "main"
                   THEN [ h EXCEPT !.metrics_data = metrics_data,
                                   !.collections = @ + 1,
                                   !.main_pc = "serving" ]
                   ELSE [ h EXCEPT !.metrics_data = metrics_data,
                                   !.collections = @ + 1,
                                   !.loop_pc = "ready",
                                   !.loop_wake = now + COLLECTION_INTERVAL ]
    /\ UNCHANGED << now, tracker, wrapper >>
    /\ UNCHANGED engine_vars
    /\ UNCHANGED ollama_vars

\* time.sleep(interval) of the loop: the clock moves on to its end
TickMega ==
    /\ mega.loop_pc = "ready"
    /\ mega.loop_wake > now
    /\ now' = mega.loop_wake
    /\ UNCHANGED service_vars
    /\ UNCHANGED engine_vars
    /\ UNCHANGED ollama_vars

NextMega ==
    \/ start_collection_thread
    \/ \E thread \in { "main", "loop" } : collect_all_metrics_start(thread)
    \/ \E thread \in { "main", "loop" } : \E result \in WorkerResults :
           collect_all_metrics_join(thread, result)
    \/ TickMega

SpecMega == InitServices /\ [][NextMega]_vars

-----------------------------------------------------------------------------
(* A RequestTracker on its own: any caller may start, update and end any   *)
(* request id at any time.  The tracker's lock makes each call one step.   *)

\* calls made on the tracker, and seconds gone by, explored under SpecTracker
MaxCalls == 5

RequestIds == { "r1", "r2" }

Models == { "llama2", "mistral" }

TrackerStep(tr, dt) ==
    /\ cycle < MaxCalls
    /\ cycle' = cycle + 1
    /\ now' = now + dt
    /\ tracker' = tr
    /\ UNCHANGED << outcome, readings, container_profiles, memory_history,
                    gpu_memory_total_bytes, gpu_memory_used_bytes,
                    gpu_memory_free_bytes, gpu_memory_known_bytes,
                    gpu_memory_unknown_bytes, container_gpu_memory_bytes,
                    container_gpu_score, container_gpu_detected,
                    gpu_inference_active, gpu_inference_confidence,
                    unknown_memory_histogram, locals, profile_ops,
                    mega, wrapper >>
    /\ UNCHANGED ollama_vars

\* tracker.start_request(request_id, model, container, endpoint)
StartRequest(request_id, model) ==
    TrackerStep(start_request(tracker, request_id, model, "llm",
                              "/api/generate", now), 0)

\* tracker.update_tokens(request_id, tokens)
UpdateTokens(request_id, tokens) ==
    TrackerStep(update_tokens(tracker, request_id, tokens, now), 0)

\* tracker.end_request(request_id, prompt_tokens, response_tokens, error)
EndRequest(request_id, error) ==
    TrackerStep(IF error = ""
                THEN end_request(tracker, request_id, 2, 3, error, now)
                ELSE end_request(tracker, request_id, 0, 0, error, now), 0)

\* A second goes by between two calls
TickTracker == TrackerStep(tracker, 1)

NextTracker ==
    \/ \E request_id \in RequestIds : \E model \in Models :
           StartRequest(request_id, model)
    \/ \E request_id \in RequestIds : UpdateTokens(request_id, 4)
    \/ \E request_id \in RequestIds : \E error \in { "", "ValueError" } :
           EndRequest(request_id, error)
    \/ TickTracker

SpecTracker == InitServices /\ [][NextTracker]_vars

-----------------------------------------------------------------------------
(* The Ollama inference wrapper: handle_generate coroutines run on one     *)
(* event loop, so each runs from one await to the next without             *)
(* interruption, and several requests are in flight at once.               *)

\* requests explored under SpecWrapper
MaxRequests == 2

\* self.container_name (default of CONTAINER_NAME)
container_name == "ollama-wrapper"

\* queue_size.labels(model, container, '/api/generate')
QueueLabels(model) ==
    [ model |-> model, container |-> container_name,
      endpoint |-> "/api/generate" ]

\* self.pending_requests.remove(request_id), when it is in the list
Remove(pending_requests, request_id) ==
    LET Other(r) == r # request_id
    IN  SelectSeq(pending_requests, Other)

\* The `finally` of both response branches: the id is removed from
\* pending_requests and queue_size is set to the length of the list
UpdateQueue(w, request_id, model) ==
    \* (w is the wrapper's state)
    LET pending_requests == Remove(w.pending_requests, request_id)
    IN  [ w EXCEPT !.pending_requests = pending_requests,
                   !.queue_size = GaugeSet(@, QueueLabels(model),
                                           Len(pending_requests)) ]

\* handle_generate returns a response: the coroutine is over
Returns(w, request_id, status) ==
    [ w EXCEPT !.in_flight = Del(@, request_id),
               !.responses = (request_id :> status) @@ @ ]

WrapperStep(w, tr, dt) ==
    /\ wrapper' = w
    /\ tracker' = tr
    /\ now' = now + dt
    /\ UNCHANGED mega
    /\ UNCHANGED engine_vars
    /\ UNCHANGED ollama_vars

\* handle_generate up to its first await on the backend: the uuid, the
\* request's JSON body (a body that cannot be decoded raises into
\* `except Exception`), the append to pending_requests and queue_size
handle_generate(model, stream, decodable) ==
    /\ wrapper.arrived < MaxRequests
    /\ \E request_id \in { wrapper.arrived + 1 } :
       \E arrived \in { [ wrapper EXCEPT !.arrived = request_id ] } :
          IF ~decodable
          THEN WrapperStep(
                   Returns(arrived, request_id, 500),
                   end_request(tracker, request_id, 0, 0, "JSONDecodeError", now),
                   0)
          ELSE \E pending_requests \in { Append(wrapper.pending_requests, request_id) } :
               WrapperStep(
                   [ arrived EXCEPT
                       !.pending_requests = pending_requests,
                       !.queue_size = GaugeSet(@, QueueLabels(model),
                                               Len(pending_requests)),
                       !.in_flight =
                           (request_id :> [ pc |-> "track_model_load",
                                            model |-> model,
                                            stream |-> stream ]) @@ @ ],
                   tracker, 0)

\* await self.track_model_load(model): the tags request answers (the model
\* listed or not) or raises; then start_request
track_model_load(request_id, tags) ==
    /\ request_id \in DOMAIN wrapper.in_flight
    /\ wrapper.in_flight[request_id].pc = "track_model_load"
    /\ \E model \in { wrapper.in_flight[request_id].model } :
          IF tags = "error" /\ model \notin wrapper.model_load_times
          THEN WrapperStep(
                   Returns(wrapper, request_id, 500),
                   end_request(tracker, request_id, 0, 0, "ClientConnectorError", now),
                   0)
          ELSE WrapperStep(
                   [ wrapper EXCEPT
                       !.model_load_times =
                           IF tags = "listed" THEN @ \cup { model } ELSE @,
                       !.in_flight[request_id].pc = "post" ],
                   start_request(tracker, request_id, model, container_name,
                                 "/api/generate", now),
                   0)

\* session.post(.../api/generate, timeout=300): a response, a timeout, or a
\* connection error
post(request_id, upstream) ==
    /\ request_id \in DOMAIN wrapper.in_flight
    /\ wrapper.in_flight[request_id].pc = "post"
    /\ CASE upstream = "response" ->
              WrapperStep([ wrapper EXCEPT !.in_flight[request_id].pc = "respond" ],
                          tracker, 0)
         [] upstream = "timeout" ->
              WrapperStep(Returns(wrapper, request_id, 504),
                          end_request(tracker, request_id, 0, 0, "timeout", now + 300),
                          300)
         [] upstream = "connection error" ->
              WrapperStep(Returns(wrapper, request_id, 500),
                          end_request(tracker, request_id, 0, 0,
                                      "ClientConnectorError", now),
                          0)

\* The non-streaming branch: resp.read(), json.loads, end_request, and the
\* `finally` that updates the queue; a body that cannot be read raises into
\* `except Exception`
respond(request_id, body) ==
    /\ request_id \in DOMAIN wrapper.in_flight
    /\ wrapper.in_flight[request_id].pc = "respond"
    /\ ~wrapper.in_flight[request_id].stream
    /\ \E model \in { wrapper.in_flight[request_id].model } :
       CASE body = "json" ->
              WrapperStep(Returns(UpdateQueue(wrapper, request_id, model),
                                  request_id, 200),
                          end_request(tracker, request_id, 2, 3, "", now), 0)
         [] body = "not json" ->
              WrapperStep(Returns(UpdateQueue(wrapper, request_id, model),
                                  request_id, 200),
                          end_request(tracker, request_id, 0, 0,
                                      "json_decode_error", now), 0)
         [] body = "read error" ->
              WrapperStep(Returns(wrapper, request_id, 500),
                          end_request(tracker, request_id, 0, 0,
                                      "ClientPayloadError", now), 0)

\* The streaming branch, generate(): a chunk is counted, or the stream ends
\* or raises; the generator's `finally` updates the queue
generate(request_id, event) ==
    /\ request_id \in DOMAIN wrapper.in_flight
    /\ wrapper.in_flight[request_id].pc \in { "respond", "streaming" }
    /\ wrapper.in_flight[request_id].stream
    /\ \E model \in { wrapper.in_flight[request_id].model } :
       CASE event = "chunk" ->
              /\ wrapper.in_flight[request_id].pc = "respond"
              /\ WrapperStep([ wrapper EXCEPT !.in_flight[request_id].pc = "streaming" ],
                             update_tokens(tracker, request_id, 1, now + 1), 1)
         [] event = "end" ->
              WrapperStep(Returns(UpdateQueue(wrapper, request_id, model),
                                  request_id, 200),
                          end_request(tracker, request_id, 2, 1, "", now), 0)
         [] event = "error" ->
              WrapperStep(Returns(UpdateQueue(wrapper, request_id, model),
                                  request_id, 200),
                          end_request(tracker, request_id, 0, 0,
                                      "ClientPayloadError", now), 0)

InFlightOrNext == 1 .. MaxRequests

NextWrapper ==
    \/ \E model \in Models : \E stream, decodable \in BOOLEAN :
           handle_generate(model, stream, decodable)
    \/ \E request_id \in InFlightOrNext :
       \E tags \in { "listed", "not listed", "error" } :
           track_model_load(request_id, tags)
    \/ \E request_id \in InFlightOrNext :
       \E upstream \in { "response", "timeout", "connection error" } :
           post(request_id, upstream)
    \/ \E request_id \in InFlightOrNext :
       \E body \in { "json", "not json", "read error" } :
           respond(request_id, body)
    \/ \E request_id \in InFlightOrNext :
       \E event \in { "chunk", "end", "error" } :
           generate(request_id, event)

SpecWrapper == InitServices /\ [][NextWrapper]_vars

-----------------------------------------------------------------------------
(* Properties.                                                             *)

\* The latest call of calculate_inference ran to its end.
Completed == outcome = "ok"

\* What the driver and nvidia-smi reported for a device in the latest call
UsedOf(d) == readings.gpu_stats[d].used

ProcessesOf(d) == readings.known_processes[d]

\* The values a function (a dict, the children of a gauge) holds, as a sequence
RECURSIVE ValuesOf(_, _)
ValuesOf(f, keys) ==
    IF keys = {} THEN << >>
    ELSE LET k == CHOOSE x \in keys : TRUE
         IN  << f[k] >> \o ValuesOf(f, keys \ { k })

\* The sum of the shares handed out for device d in the latest call
AllocatedSum(d) == RSum(ValuesOf(locals[d].allocated, DOMAIN locals[d].allocated))

\* The set of containers in a list
Range(seq) == { seq[i] : i \in 1 .. Len(seq) }

\* C1: after every completed cycle the unknown-memory gauge of every device
\* is max(0, used - sum of the per-process memory) of that cycle's readings,
\* and no unknown-memory gauge is ever negative.
C1_UnknownIsClampedDifference ==
    /\ \A d \in DOMAIN gpu_memory_unknown_bytes : gpu_memory_unknown_bytes[d] >= 0
    /\ Completed =>
         \A d \in Devices :
             /\ d \in DOMAIN gpu_memory_unknown_bytes
             /\ gpu_memory_unknown_bytes[d] =
                    (IF UsedOf(d) > SumMemory(ProcessesOf(d))
                     THEN UsedOf(d) - SumMemory(ProcessesOf(d))
                     ELSE 0)

\* C1 witness: a completed cycle in which the per-process memory of a device
\* exceeds its used memory, and the gauge is 0.
C1_Witness ==
    /\ Completed
    /\ \E d \in Devices :
           /\ SumMemory(ProcessesOf(d)) > UsedOf(d)
           /\ UsedOf(d) > 0
           /\ gpu_memory_unknown_bytes[d] = 0

\* C2 as claimed: known + unknown equals the used memory for all readings.
C2_KnownPlusUnknownIsUsed ==
    Completed =>
        \A d \in Devices :
            locals[d].known_used + gpu_memory_unknown_bytes[d]
                = gpu_memory_used_bytes[d]

\* C2 as amended: known + unknown equals the larger of used and known, so it
\* equals used exactly when the per-process memory does not exceed used.
C2_KnownPlusUnknownIsMax ==
    Completed =>
        \A d \in Devices :
            LET known == SumMemory(ProcessesOf(d))
                sum == locals[d].known_used + gpu_memory_unknown_bytes[d]
            IN  /\ locals[d].known_used = known
                /\ gpu_memory_used_bytes[d] = UsedOf(d)
                /\ known <= UsedOf(d) => sum = UsedOf(d)
                /\ known > UsedOf(d) => sum = known

\* C2 witness: a device with 0 < known < used whose known and unknown add up
\* to used.
C2_Witness ==
    /\ Completed
    /\ \E d \in Devices :
           /\ 0 < locals[d].known_used
           /\ locals[d].known_used < UsedOf(d)
           /\ locals[d].known_used + gpu_memory_unknown_bytes[d] = UsedOf(d)

C4_AllocationsSumToUnknown ==
    Completed =>
        \A d \in Devices :
            LET unknown == gpu_memory_unknown_bytes[d]
                unresolved == locals[d].unknown_containers
            IN  /\ (unknown > 0 /\ unresolved # << >>) =>
                       /\ DOMAIN locals[d].allocated = Range(unresolved)
                       /\ AllocatedSum(d) = R(unknown)
                /\ ~(unknown > 0 /\ unresolved # << >>) =>
                       DOMAIN locals[d].allocated = {}
                /\ RLeq(AllocatedSum(d), R(unknown))
                /\ \A c \in DOMAIN locals[d].allocated :
                       /\ RLeq(R(0), locals[d].allocated[c])
                       /\ container_gpu_memory_bytes[MemLabels(c, d, "inference")]
                              = locals[d].allocated[c]

\* C4 witness: unknown memory split unevenly between two unresolved
\* containers.
C4_Witness ==
    /\ Completed
    /\ \E d \in Devices :
           /\ gpu_memory_unknown_bytes[d] > 0
           /\ Len(locals[d].unknown_containers) = 2
           /\ \E b, c \in DOMAIN locals[d].allocated :
                  RLess(locals[d].allocated[c], locals[d].allocated[b])

\* C5: the weight of every unresolved container is 1.0 x (2.0 if its name is
\* LLM-like, else 1.0) x (1 + likelihood score), the normalised weights of a
\* device sum to 1, every share is unknown x weight / total weight, and with
\* 8 GiB unknown and the never-visible containers "ollama" and "web" the
\* weights are 3 and 1 and the shares 6 GiB and 2 GiB.
C5_WeightsAndShares ==
    Completed =>
        \A d \in Devices :
            LET unknown == locals[d].unknown_used
                unresolved == locals[d].unknown_containers
                weights == locals[d].weights
                total == locals[d].total_weight
                NeverVisible(c) == container_profiles[c].last_seen_with_gpu = << >>
            IN  (unknown > 0 /\ unresolved # << >>) =>
                  /\ DOMAIN weights = Range(unresolved)
                  /\ \A c \in Range(unresolved) :
                         /\ weights[c] =
                                RMul(IF _detect_llm_container(Name(c))
                                     THEN R(2) ELSE R(1),
                                     RAdd(R(1), locals[d].scores[c]))
                         /\ d = device_count - 1 =>
                                locals[d].scores[c] =
                                    get_gpu_likelihood_score(container_profiles[c], now)
                         /\ RMul(locals[d].allocated[c], total)
                                = RMul(R(unknown), weights[c])
                  /\ RSum([ i \in 1 .. Len(unresolved) |->
                              RDiv(weights[unresolved[i]], total) ]) = R(1)
                  /\ ( /\ unknown = 8192
                       /\ unresolved = << "b2", "c3" >>
                       /\ NeverVisible("b2")
                       /\ NeverVisible("c3") ) =>
                         /\ weights["b2"] = R(3)
                         /\ weights["c3"] = R(1)
                         /\ locals[d].allocated["b2"] = R(6144)
                         /\ locals[d].allocated["c3"] = R(2048)

\* C5 witness: the 16 GiB scenario (10 GiB used, 2 GiB attributed to a1,
\* "ollama" and "web" unresolved and never seen), shares 6 GiB and 2 GiB.
C5_Witness ==
    /\ Completed
    /\ UsedOf(0) = 10240
    /\ locals[0].known_used = 2048
    /\ locals[0].unknown_containers = << "b2", "c3" >>
    /\ container_profiles["b2"].last_seen_with_gpu = << >>
    /\ container_profiles["c3"].last_seen_with_gpu = << >>
    /\ container_gpu_memory_bytes[MemLabels("b2", 0, "inference")] = R(6144)
    /\ container_gpu_memory_bytes[MemLabels("c3", 0, "inference")] = R(2048)

\* Reached under SpecDeep: a weight whose score has a recency part and a
\* history part (more than 10 observations, one of them visible).
DeepScoreReached ==
    /\ Completed
    /\ \E d \in Devices :
           /\ "b2" \in DOMAIN locals[d].scores
           /\ RLess(<< 1, 2 >>, locals[d].scores["b2"])
           /\ Len(container_profiles["b2"].gpu_history) > 10
           /\ container_profiles["b2"].last_seen_with_gpu # << >>
           /\ now - container_profiles["b2"].last_seen_with_gpu[1] < 300

\* C6 as claimed: after a completed cycle the inference-active flag of a
\* device is 1 exactly when its unknown memory exceeds 100 MiB.
C6_ActiveIffAbove100MiB ==
    Completed =>
        \A d \in Devices :
            (gpu_inference_active[d] = 1) <=> (gpu_memory_unknown_bytes[d] > 100)

\* C7 as claimed: the inferred shares exposed per (device, container) are
\* exactly those handed out in the latest cycle.
C7_InferredSharesAreLatest ==
    Completed =>
        \A l \in DOMAIN container_gpu_memory_bytes :
            l.method = "inference" =>
                /\ l.container_id \in DOMAIN locals[l.gpu].allocated
                /\ container_gpu_memory_bytes[l] = locals[l.gpu].allocated[l.container_id]

\* C8 as claimed: the known memory reported for a device after a completed
\* cycle is the sum over the processes seen in that cycle only.
C8_KnownRebuiltEveryCycle ==
    Completed =>
        \A d \in DOMAIN gpu_memory_known_bytes :
            gpu_memory_known_bytes[d] = SumMemory(ProcessesOf(d))

\* The containers with a mapped process on device d in the latest call
MappedOn(d) ==
    { c \in Containers :
        \E i \in 1 .. Len(ProcessesOf(d)) :
            map_pid_to_container(readings, ProcessesOf(d)[i].pid) = << c >> }

\* C9 as claimed: a listed container is unresolved on device d exactly when
\* none of its processes was mapped on device d.
C9_PartitionPerDevice ==
    Completed =>
        \A d \in Devices :
            \A c \in Range(readings.gpu_containers) :
                c \in Range(locals[d].unknown_containers) <=> c \notin MappedOn(d)

\* C9 as amended: a listed container is unresolved, on every device alike,
\* exactly when none of its processes was mapped on any device; only
\* unresolved containers get a share.
C9_PartitionPerCycle ==
    Completed =>
        \A d \in Devices :
            /\ Range(locals[d].unknown_containers) \subseteq Range(readings.gpu_containers)
            /\ \A c \in Range(readings.gpu_containers) :
                   c \in Range(locals[d].unknown_containers)
                       <=> \A e \in Devices : c \notin MappedOn(e)
            /\ DOMAIN locals[d].allocated \subseteq Range(locals[d].unknown_containers)

\* C9 witness: a1 has a mapped process on device 0 only, device 1 has
\* unknown memory, and a1 is not unresolved on device 1 and gets no share
\* of it while b2 does.
C9_Witness ==
    /\ Completed
    /\ "a1" \in Range(readings.gpu_containers)
    /\ "a1" \in MappedOn(0)
    /\ "a1" \notin MappedOn(1)
    /\ gpu_memory_unknown_bytes[1] > 0
    /\ "a1" \notin Range(locals[1].unknown_containers)
    /\ "a1" \notin DOMAIN locals[1].allocated
    /\ "b2" \in DOMAIN locals[1].allocated

\* C10 as claimed: after a completed cycle every container listed with GPU
\* access has a profile.
C10_ProfileOnFirstListing ==
    Completed =>
        \A c \in Range(readings.gpu_containers) : c \in DOMAIN container_profiles

\* The second half of C10 holds of the code: a profile, once created, stays.
ProfilesPersist ==
    [][DOMAIN container_profiles \subseteq DOMAIN container_profiles']_vars

\* The containers observed in a reading: listed with GPU access, or owner of
\* a process that was mapped on some device
Observed(rd) ==
    Range(rd.gpu_containers)
        \cup { c \in Containers :
                 \E d \in Devices : \E i \in 1 .. Len(rd.known_processes[d]) :
                     map_pid_to_container(rd, rd.known_processes[d][i].pid) = << c >> }

\* C11 as claimed: in a completed cycle the history of every observed
\* container that has a profile grows by exactly one entry (up to the bound),
\* however many devices the host has and however many processes it owns.
C11_OneObservationPerCycle ==
    [][ outcome' = "ok" =>
          \A c \in DOMAIN container_profiles \cap Observed(readings') :
              LET before == Len(container_profiles[c].gpu_history)
                  after == Len(container_profiles'[c].gpu_history)
              IN  after = IF before + 1 < HISTORY_SIZE THEN before + 1
                          ELSE HISTORY_SIZE ]_vars

\* C12 as claimed: in a completed cycle every update of a profile comes
\* before the first score read, so no update lies between two score reads.
C12_UpdatesBeforeScores ==
    Completed =>
        \A i, j \in 1 .. Len(profile_ops) :
            (profile_ops[i][1] = "score" /\ profile_ops[j][1] = "update") => j < i

\* A rational in [0, 1]
InUnit(x) == RLeq(R(0), x) /\ RLeq(x, R(1))

\* Delays after the latest observation at which a score is asked for
QueryDelays == { 0, 150, 299, 300 }

\* C13: whatever observations the profiles have been given, every score the
\* gauge holds and every score asked for at any later time is in [0, 1], and
\* of two profiles with the same history without a visible observation the
\* one with an LLM-like name ("ollama-worker") scores strictly higher than
\* the other ("nginx").
C13_ScoreInUnitAndNameCounts ==
    /\ \A l \in DOMAIN container_gpu_score : InUnit(container_gpu_score[l])
    /\ \A c \in DOMAIN container_profiles : \A q \in QueryDelays :
           InUnit(get_gpu_likelihood_score(container_profiles[c], now + q))
    /\ \A q \in QueryDelays :
           LET worker == container_profiles["d4"]
               nginx == container_profiles["e5"]
           IN  ( /\ worker.gpu_history = nginx.gpu_history
                 /\ GpuCount(worker.gpu_history) = 0 ) =>
                   RLess(get_gpu_likelihood_score(nginx, now + q),
                         get_gpu_likelihood_score(worker, now + q))

\* C13 witness: "ollama-worker" and "nginx" with the same history of more
\* than 10 observations, none visible, were scored 0.5 and 0.
C13_Witness ==
    /\ Len(container_profiles["d4"].gpu_history) > 10
    /\ container_profiles["d4"].gpu_history = container_profiles["e5"].gpu_history
    /\ GpuCount(container_profiles["d4"].gpu_history) = 0
    /\ ContainerLabels("d4") \in DOMAIN container_gpu_score
    /\ container_gpu_score[ContainerLabels("d4")] = << 1, 2 >>
    /\ container_gpu_score[ContainerLabels("e5")] = R(0)

\* Reached under SpecProfile: "ollama-worker" scored exactly 1 (name, seen
\* just now, every observation of a long history visible).
ScoreOneReached ==
    /\ ContainerLabels("d4") \in DOMAIN container_gpu_score
    /\ container_gpu_score[ContainerLabels("d4")] = R(1)

\* Reached under SpecProfile: "nginx" scored 0.2 for having been seen 100 s
\* ago, 0.3 x (1 - 100/300).
RecencyScoreReached ==
    /\ ContainerLabels("e5") \in DOMAIN container_gpu_score
    /\ container_gpu_score[ContainerLabels("e5")] = << 1, 5 >>

\* Pairs << unknown, used >> a confidence is asked for, by growing
\* unknown / used: 0, 1/6, 1/2, 2/3, 1
Queries ==
    << << 0, 100 >>, << 50, 300 >>, << 50, 100 >>, << 200, 300 >>,
       << 300, 300 >> >>

\* The confidences of the queries from the k-th on are in [0, 1] and none is
\* below the one before it, prev
RECURSIVE NonDecreasing(_, _, _)
NonDecreasing(history, k, prev) ==
    IF k > Len(Queries) THEN TRUE
    ELSE \A confidence \in { Confidence(history, Queries[k][1], Queries[k][2]) } :
             /\ InUnit(confidence)
             /\ RLeq(prev, confidence)
             /\ k > 1 => RLeq(Rat(Queries[k - 1][1], Queries[k - 1][2]),
                              Rat(Queries[k][1], Queries[k][2]))
             /\ NonDecreasing(history, k + 1, confidence)

\* C14: every confidence the gauge holds is in [0, 1]; and with the
\* used-memory history of a device as it is (so the stability factor fixed),
\* the confidence of any unknown memory within the used memory is in [0, 1]
\* and does not decrease when unknown / used grows.
C14_ConfidenceInUnitAndMonotone ==
    /\ \A d \in DOMAIN gpu_inference_confidence :
           InUnit(gpu_inference_confidence[d])
    /\ \A d \in Devices :
           memory_history[d] # << >> => NonDecreasing(memory_history[d], 1, R(0))

\* C14 witness: a device whose history holds more than 10 unequal samples
\* got a confidence strictly between 0 and the unknown ratio.
C14_Witness ==
    /\ Completed
    /\ \E d \in Devices :
           /\ Len(memory_history[d]) > 10
           /\ locals[d].unknown_used > 0
           /\ RLess(R(0), gpu_inference_confidence[d])
           /\ RLess(gpu_inference_confidence[d],
                    Rat(locals[d].unknown_used, locals[d].total_used))
           /\ RLess(<< 1, 2 >>, gpu_inference_confidence[d])

\* The sum of the squares of the samples of a history, from the k-th on
RECURSIVE SumOfSquares(_, _)
SumOfSquares(history, k) ==
    IF k > Len(history) THEN 0
    ELSE history[k] * history[k] + SumOfSquares(history, k + 1)

\* 1 / (1 + variance / mean^2) of n samples with sum S and sum of squares Q
\* is S^2 / (n Q): variance = Q/n - (S/n)^2 and mean = S/n.
ExpectedConfidence(history, unknown, used) ==
    IF used = 0 THEN R(0)
    ELSE IF Len(history) <= 10 THEN RMul(Rat(unknown, used), << 1, 2 >>)
    ELSE LET n == Len(history)
             S == SumHistory(history, 1)
             Q == SumOfSquares(history, 1)
         IN  RMul(Rat(unknown, used), Rat(S * S, n * Q))

\* C15: after a completed cycle the confidence of every device is
\* unknown / used x 0.5 while its used-memory history holds at most 10
\* samples and unknown / used x 1 / (1 + variance / mean^2) once it holds
\* more, and 0 when nothing is used; an idle device has unknown memory 0,
\* confidence 0 and the inference-active flag 0.
C15_ConfidenceFormula ==
    Completed =>
        \A d \in Devices :
            /\ gpu_inference_confidence[d] =
                   ExpectedConfidence(memory_history[d],
                                      gpu_memory_unknown_bytes[d], UsedOf(d))
            /\ UsedOf(d) = 0 =>
                   /\ gpu_memory_unknown_bytes[d] = 0
                   /\ gpu_inference_confidence[d] = R(0)
                   /\ gpu_inference_active[d] = 0

\* C15 witness: device 0 with a history of more than 10 samples, 100 MiB
\* and 300 MiB among them, all its 100 MiB unknown and a confidence below 1,
\* next to an idle device 1 with confidence 0 and the flag 0.
C15_Witness ==
    /\ Completed
    /\ Len(memory_history[0]) > 10
    /\ 100 \in Range(memory_history[0])
    /\ 300 \in Range(memory_history[0])
    /\ UsedOf(0) = 100
    /\ gpu_memory_unknown_bytes[0] = 100
    /\ RLess(gpu_inference_confidence[0], R(1))
    /\ RLess(<< 1, 2 >>, gpu_inference_confidence[0])
    /\ gpu_inference_confidence[0] = Stability(memory_history[0])
    /\ UsedOf(1) = 0
    /\ gpu_inference_confidence[1] = R(0)
    /\ gpu_inference_active[1] = 0

\* The last entries of a sequence, at most HISTORY_SIZE of them, in order
LastOf(seq) ==
    IF Len(seq) <= HISTORY_SIZE THEN seq
    ELSE SubSeq(seq, Len(seq) - HISTORY_SIZE + 1, Len(seq))

\* How often the latest cycle called update() on the profile of c
UpdatesOf(ops, c) ==
    Cardinality({ i \in 1 .. Len(ops) : ops[i] = << "update", c >> })

\* A step appended `appended` entries to the bounded history old and gave new
AppendedInOrder(old, new, appended) ==
    LET kept == Len(new) - appended
    IN  /\ Len(new) = Len(LastOf(old \o [ i \in 1 .. appended |-> 0 ]))
        /\ kept >= 0
        /\ kept <= Len(old)
        /\ SubSeq(new, 1, kept) = SubSeq(old, Len(old) - kept + 1, Len(old))

\* C16: no observation history of a profile and no used-memory history of a
\* device ever holds more than HISTORY_SIZE entries; every cycle appends its
\* entries at the end, and what it evicts from a full history are the oldest
\* entries, the others keeping their order.
C16_HistoriesBounded ==
    /\ [](/\ \A c \in DOMAIN container_profiles :
                Len(container_profiles[c].gpu_history) <= HISTORY_SIZE
          /\ \A d \in Devices : Len(memory_history[d]) <= HISTORY_SIZE)
    /\ [][ outcome' = "ok" =>
             /\ \A d \in Devices :
                    memory_history'[d] =
                        LastOf(Append(memory_history[d], readings'.gpu_stats[d].used))
             /\ \A c \in DOMAIN container_profiles' :
                    LET old == IF c \in DOMAIN container_profiles
                               THEN container_profiles[c].gpu_history ELSE << >>
                        new == container_profiles'[c].gpu_history
                        appended == UpdatesOf(profile_ops', c)
                    IN  /\ AppendedInOrder(old, new, appended)
                        /\ \A i \in 1 .. Len(new) :
                               i > Len(new) - appended <=> new[i].timestamp = now' ]_vars

\* C16 witness: after more cycles than the bound, the used-memory history of
\* device 0 and the history of b2 are full, and their oldest entries are
\* gone: b2's oldest entry is younger than the first cycle.
C16_Witness ==
    /\ cycle > HISTORY_SIZE
    /\ Len(memory_history[0]) = HISTORY_SIZE
    /\ "b2" \in DOMAIN container_profiles
    /\ Len(container_profiles["b2"].gpu_history) = HISTORY_SIZE
    /\ container_profiles["b2"].gpu_history[1].timestamp > SCRAPE_INTERVAL
    /\ container_profiles["b2"].gpu_history[HISTORY_SIZE].timestamp = now

\* The entries of a history that are visible with nonzero memory
Qualifying(gpu_history) ==
    { i \in 1 .. Len(gpu_history) :
        gpu_history[i].visible /\ gpu_history[i].memory # 0 }

\* The sum of the memory of the entries of a history with index in a set
RECURSIVE MemoryOf(_, _)
MemoryOf(gpu_history, entries) ==
    IF entries = {} THEN 0
    ELSE LET i == CHOOSE x \in entries : TRUE
         IN  gpu_history[i].memory + MemoryOf(gpu_history, entries \ { i })

\* The arithmetic mean of the memory of the qualifying entries of a history
MeanOfQualifying(gpu_history) ==
    Rat(MemoryOf(gpu_history, Qualifying(gpu_history)),
        Cardinality(Qualifying(gpu_history)))

\* C17 as claimed: the estimate of a profile whose history holds more than 5
\* entries is the mean over the qualifying entries now in the history (0, as
\* at the start, when there is none), and that of a profile with 5 or fewer
\* entries is still the initial 0.
C17_TypicalIsMeanOfWindow ==
    \A c \in DOMAIN container_profiles :
        LET gpu_history == container_profiles[c].gpu_history
        IN  container_profiles[c].typical_memory =
                IF Len(gpu_history) > 5 /\ Qualifying(gpu_history) # {}
                THEN MeanOfQualifying(gpu_history)
                ELSE R(0)

\* C17 as amended: an update that leaves more than 5 entries in the history,
\* at least one of them qualifying, sets the estimate to the mean over the
\* qualifying entries now in the history; any other update leaves the
\* estimate as it was (initially 0), also when the entries it was computed
\* from have been evicted.
C17_TypicalIsMeanOrPrior ==
    /\ [](cycle = 0 =>
            \A c \in DOMAIN container_profiles :
                container_profiles[c].typical_memory = R(0))
    /\ [][ cycle' = cycle + 1 =>
             \A c \in DOMAIN container_profiles :
                 LET gpu_history == container_profiles'[c].gpu_history
                 IN  container_profiles'[c].typical_memory =
                         IF Len(gpu_history) > 5 /\ Qualifying(gpu_history) # {}
                         THEN MeanOfQualifying(gpu_history)
                         ELSE container_profiles[c].typical_memory ]_vars

\* C17 witness: d4 keeps an estimate of 1024 MiB although no entry of its
\* full history qualifies any more, while f6's estimate is the mean of the
\* entries it still holds.
C17_Witness ==
    /\ Len(container_profiles["d4"].gpu_history) = HISTORY_SIZE
    /\ Qualifying(container_profiles["d4"].gpu_history) = {}
    /\ container_profiles["d4"].typical_memory = R(1024)
    /\ Qualifying(container_profiles["f6"].gpu_history) # {}
    /\ container_profiles["f6"].typical_memory =
           MeanOfQualifying(container_profiles["f6"].gpu_history)

\* Reached under SpecProfile: f6's estimate is a mean strictly between its
\* two memory values, and g7, seen with zero memory only, is at 0.
TypicalMeanReached ==
    /\ Len(container_profiles["f6"].gpu_history) > 5
    /\ RLess(R(512), container_profiles["f6"].typical_memory)
    /\ RLess(container_profiles["f6"].typical_memory, R(2048))
    /\ container_profiles["f6"].typical_memory =
           MeanOfQualifying(container_profiles["f6"].gpu_history)
    /\ GpuCount(container_profiles["g7"].gpu_history) > 0
    /\ container_profiles["g7"].typical_memory = R(0)

\* A generate request that timed out or took more than 300 ms
Saturated(o) ==
    \/ o.kind = "timeout"
    \/ o.kind = "response" /\ o.response_time > 300

\* C18: a probe whose generate request times out or answers slower than the
\* latency threshold leaves the detector of enhanced_ollama_exporter.py
\* active, and a pass that finds a running model listed by /api/ps leaves
\* the collector of ollama_exporter.py active; no variable of the memory
\* attribution is read or written on the way.
C18_ActiveOnQualifyingObservation ==
    [][ /\ ( /\ threads.probe_pc = "generate"
             /\ threads'.probe_pc = "tags"
             /\ Saturated(threads'.generate) ) =>
               /\ detector'.ollama_inference_active = 1
               /\ detector'.ollama_last_inference_timestamp = now'
               /\ UNCHANGED engine_vars
        /\ ( /\ threads'.collector_wake # threads.collector_wake
             /\ threads'.ps = "models" ) =>
               /\ collector'.ollama_inference_active = 1
               /\ collector'.last_inference_time = now'
               /\ UNCHANGED engine_vars ]_vars

\* C18 witness: the probe of the detector has just timed out and the
\* detector is active; the collector has just found a
\* running model and is active.
C18_Witness ==
    /\ threads.probe_pc = "tags"
    /\ threads.generate.kind = "timeout"
    /\ detector.ollama_inference_active = 1
    /\ detector.inference_history = << now >>
    /\ threads.ps = "models"
    /\ collector.ollama_inference_active = 1
    /\ collector.last_inference_time = now

\* Reached under SpecProbe: a slow answer (400 ms) made the detector active.
SlowProbeReached ==
    /\ threads.probe_pc = "tags"
    /\ threads.generate = [ kind |-> "response", response_time |-> 400 ]
    /\ detector.ollama_inference_active = 1
    /\ detector.ollama_last_inference_timestamp = now

\* Reached under SpecProbe: the detector went back to idle after its window.
IdleAgainReached ==
    /\ detector.inference_history # << >>
    /\ detector.ollama_inference_active = 0

\* The decayed signal: max(0, 1 - elapsed / 30)
Decayed(elapsed) ==
    IF elapsed >= 30 THEN R(0) ELSE Rat(30 - elapsed, 30)

\* C19 as claimed: neither exporter reports idle sooner than 30 s after its
\* most recent qualifying observation (a saturated probe for the detector,
\* a running model listed by /api/ps for the collector).
C19_IdleOnlyAfterWindow ==
    /\ ( /\ detector.ollama_inference_active = 0
         /\ detector.inference_history # << >> ) =>
           now - MaxOf(detector.inference_history) >= 30
    /\ ( /\ collector.ollama_inference_active = 0
         /\ collector.last_inference_time # 0 ) =>
           now - collector.last_inference_time >= 30

\* What holds of the code: the detector of enhanced_ollama_exporter.py does
\* not report idle sooner than 30 s after its latest saturated probe.
DetectorIdleOnlyAfterWindow ==
    ( /\ detector.ollama_inference_active = 0
      /\ detector.inference_history # << >> ) =>
        now - MaxOf(detector.inference_history) >= 30

\* C20 as claimed: the likely-active signal is 0 whenever the detector is
\* idle, and whenever a step sets it, it is max(0, 1 - elapsed / 30) for the
\* time elapsed since the latest saturated probe.
C20_LikelyIsDecayed ==
    /\ [](detector.ollama_inference_active = 0 =>
            detector.ollama_gpu_likely_active = R(0))
    /\ [][ detector'.ollama_gpu_likely_active # detector.ollama_gpu_likely_active =>
             /\ detector'.inference_history # << >>
             /\ detector'.ollama_gpu_likely_active =
                    Decayed(now' - MaxOf(detector'.inference_history)) ]_vars

\* C21: every failure of the probe request, a timeout as well as a
\* connection error, leaves the detector active when the probe step ends.
C21_ProbeFailureIsActivity ==
    [][ ( /\ threads.probe_pc = "generate"
          /\ threads'.probe_pc = "tags"
          /\ threads'.generate.kind \in { "timeout", "error" } )
        => detector'.ollama_inference_active = 1 ]_vars

\* A timeout of the probe does leave the detector active.
ProbeTimeoutIsActivity ==
    [][ ( /\ threads.probe_pc = "generate"
          /\ threads'.probe_pc = "tags"
          /\ threads'.generate.kind = "timeout" )
        => detector'.ollama_inference_active = 1 ]_vars

\* C22 as claimed: when the read of one device fails in a cycle, every other
\* device has its total, used, known and unknown memory computed from that
\* cycle's readings and reported.
C22_OtherDevicesStillReported ==
    (outcome # "none" /\ readings.failing # {}) =>
        \A d \in Devices \ readings.failing :
            /\ d \in DOMAIN gpu_memory_total_bytes
            /\ gpu_memory_total_bytes[d] = readings.gpu_stats[d].total
            /\ gpu_memory_used_bytes[d] = UsedOf(d)
            /\ locals[d].total_used = UsedOf(d)
            /\ locals[d].known_used = SumMemory(ProcessesOf(d))
            /\ d \in DOMAIN gpu_memory_unknown_bytes
            /\ gpu_memory_unknown_bytes[d] =
                   UnknownUsed(UsedOf(d), SumMemory(ProcessesOf(d)))

\* What the code does when the read of a device fails: the call ends with
\* the exception, and no device has its known or unknown memory computed.
FailedReadEndsTheCall ==
    (outcome # "none" /\ readings.failing # {}) =>
        /\ outcome = "error"
        /\ locals = NoLocals

\* C23 as claimed: in a cycle whose container listing fails no inferred
\* share is handed out, and every profile that existed before the cycle is
\* the same after it.
C23_FailedListingKeepsProfiles ==
    [][ readings'.docker_ps = "error" =>
          /\ \A d \in Devices : locals'[d].allocated = NoChildren
          /\ \A c \in DOMAIN container_profiles :
                 /\ c \in DOMAIN container_profiles'
                 /\ container_profiles'[c] = container_profiles[c] ]_vars

\* The first half of C23 holds of the code: no inferred share is handed out
\* in a cycle whose container listing fails, and no profile is created.
FailedListingInfersNothing ==
    [][ readings'.docker_ps = "error" =>
          /\ \A d \in Devices : locals'[d].allocated = NoChildren
          /\ DOMAIN container_profiles' = DOMAIN container_profiles ]_vars

\* C24: a cycle that ended with an exception does not stop the loop (the
\* next pass can be made), and the pass after a failed one, made with every
\* device readable again, completes and reports the total, used and unknown
\* memory of every device from its own readings.
C24_ErrorsDoNotStopTheEngine ==
    /\ []((outcome = "error" /\ cycle < MaxCycles) => ENABLED Next)
    /\ [][ (outcome = "error" /\ readings'.failing = {}) =>
             /\ outcome' = "ok"
             /\ \A d \in Devices :
                    /\ d \in DOMAIN gpu_memory_unknown_bytes'
                    /\ gpu_memory_total_bytes'[d] = readings'.gpu_stats[d].total
                    /\ gpu_memory_used_bytes'[d] = readings'.gpu_stats[d].used
                    /\ gpu_memory_unknown_bytes'[d] =
                           UnknownUsed(readings'.gpu_stats[d].used,
                                       SumMemory(readings'.known_processes[d])) ]_vars

\* C24 witness: device 1 could not be read in the first cycle (its history
\* is one entry shorter than device 0's), and the second cycle has completed
\* and reported the memory of both devices.
C24_Witness ==
    /\ Completed
    /\ cycle = 2
    /\ Len(memory_history[0]) = 2
    /\ Len(memory_history[1]) = 1
    /\ UsedOf(1) > 0
    /\ gpu_memory_used_bytes[1] = UsedOf(1)
    /\ gpu_memory_unknown_bytes[1] = UsedOf(1)

\* C25 as claimed: at every moment at most one collection cycle is
\* executing.
C25_OneCollectionAtATime ==
    ~(mega.main_pc = "collecting" /\ mega.loop_pc = "collecting")

\* The loop on its own does what C25 says: it starts a collection only when
\* its own previous one has finished and its sleep is over.
LoopCollectsInTurn ==
    [][ (mega.loop_pc # "collecting" /\ mega'.loop_pc = "collecting") =>
          (mega.loop_pc = "ready" /\ mega.loop_wake <= now) ]_vars

\* The points get_time_series returns for a metric carry the timestamp of
\* the add_data_point call that recorded their value
PairedAsRecorded(metric) ==
    \A series \in { get_time_series(mega, metric, now) } :
        \A i \in 1 .. Len(series) :
            << series[i].x, series[i].y >> \in Range(mega.recorded[metric])

\* C30 as claimed: whatever data points were added, get_time_series pairs
\* each value of every metric with the timestamp of the call that recorded
\* it, also for a metric that is missing from some data points.
C30_PointsCarryTheirOwnTimestamp ==
    \A metric \in DOMAIN mega.data : PairedAsRecorded(metric)

\* The metrics that every data point carries are paired as C30 says.
SteadyMetricsPaired ==
    \A metric \in DOMAIN mega.data \cap { "cpu_percent", "total_containers" } :
        PairedAsRecorded(metric)

\* The child of container_gpu_memory_bytes that holds the inferred share of
\* container c on device d is the same in both gauges
SameInferredShare(before, after, c, d) ==
    \A l \in { MemLabels(c, d, "inference") } :
        /\ (l \in DOMAIN after) <=> (l \in DOMAIN before)
        /\ l \in DOMAIN before => after[l] = before[l]

\* C26: in a cycle whose devices can all be read, a device with unknown
\* memory and no unresolved candidate (no container listed, or every listed
\* container owning a mapped process) has its unknown memory reported, no
\* inferred share is set for any container on it, and the cycle completes.
C26_UnknownWithoutCandidates ==
    [][ \A d \in Devices :
          ( /\ cycle' = cycle + 1
            /\ readings'.failing = {}
            /\ readings'.gpu_stats[d].used > SumMemory(readings'.known_processes[d])
            /\ \A c \in Range(readings'.gpu_containers) :
                   \E e \in Devices : c \in MappedOn(e)' )
          => /\ outcome' = "ok"
             /\ gpu_memory_unknown_bytes'[d] =
                    readings'.gpu_stats[d].used
                        - SumMemory(readings'.known_processes[d])
             /\ locals'[d].allocated = NoChildren
             /\ \A c \in Containers :
                    SameInferredShare(container_gpu_memory_bytes,
                                      container_gpu_memory_bytes', c, d) ]_vars

\* C26 witness: a1 is the only container listed and owns the mapped process
\* of device 0, which has 8192 MiB of unknown memory: it is reported and
\* nobody is given a share of it.
C26_Witness ==
    /\ Completed
    /\ readings.gpu_containers = << "a1" >>
    /\ "a1" \in MappedOn(0)
    /\ gpu_memory_unknown_bytes[0] = 8192
    /\ locals[0].unknown_containers = << >>
    /\ locals[0].allocated = NoChildren

\* The case of no container listed at all is reached too.
NoCandidateListedReached ==
    /\ Completed
    /\ readings.gpu_containers = << >>
    /\ gpu_memory_unknown_bytes[0] = 10240
    /\ locals[0].allocated = NoChildren

\* The memory of the processes in a list that map_pid_to_container maps to
\* container c
RECURSIVE MemoryOfContainer(_, _)
MemoryOfContainer(processes, c) ==
    IF processes = << >> THEN 0
    ELSE (IF map_pid_to_container(readings, processes[1].pid) = << c >>
          THEN processes[1].memory_bytes ELSE 0)
             + MemoryOfContainer(Tail(processes), c)

\* C27 as claimed: after a completed cycle the directly attributed memory
\* reported for a container on a device is the sum of the memory of all the
\* processes it owns there.
C27_DirectIsSumOfProcesses ==
    Completed =>
        \A d \in Devices : \A c \in MappedOn(d) :
            container_gpu_memory_bytes[MemLabels(c, d, "nvidia-smi")]
                = R(MemoryOfContainer(ProcessesOf(d), c))

\* What the code reports: the memory of the last listed process of the
\* container on that device.
DirectIsLastProcess ==
    Completed =>
        \A d \in Devices : \A c \in MappedOn(d) :
            \E i \in 1 .. Len(ProcessesOf(d)) :
                /\ map_pid_to_container(readings, ProcessesOf(d)[i].pid) = << c >>
                /\ \A j \in (i + 1) .. Len(ProcessesOf(d)) :
                       map_pid_to_container(readings, ProcessesOf(d)[j].pid) # << c >>
                /\ container_gpu_memory_bytes[MemLabels(c, d, "nvidia-smi")]
                       = R(ProcessesOf(d)[i].memory_bytes)

\* The sum of the children of a gauge
GaugeTotal(gauge) == 
    LET values == ValuesOf(gauge, DOMAIN gauge)
        RECURSIVE Sum(_)
        Sum(v) == IF v = << >> THEN 0 ELSE v[1] + Sum(Tail(v))
    IN  Sum(values)

\* C28 as claimed: whatever calls were made, the active-requests gauge is
\* the number of tracked requests and is never negative.
C28_GaugeCountsTrackedRequests ==
    /\ GaugeTotal(tracker.active_requests_gauge)
           = Cardinality(DOMAIN tracker.active_requests)
    /\ \A l \in DOMAIN tracker.active_requests_gauge :
           tracker.active_requests_gauge[l] >= 0

\* Two parts of C28 hold of the code: no child of the gauge is ever
\* negative, and a call of end_request or update_tokens for an id that is not
\* active changes nothing.
TrackerIgnoresUnknownIds ==
    /\ [](\A l \in DOMAIN tracker.active_requests_gauge :
              tracker.active_requests_gauge[l] >= 0)
    /\ [][ \A request_id \in RequestIds \ DOMAIN tracker.active_requests :
             /\ update_tokens(tracker, request_id, 4, now) = tracker
             /\ end_request(tracker, request_id, 2, 3, "", now) = tracker ]_vars

\* C29 as claimed: whenever no request is in flight, pending_requests is
\* empty and every child of queue_size reads 0.
C29_QueueDrains ==
    wrapper.in_flight = << >> =>
        /\ wrapper.pending_requests = << >>
        /\ \A l \in DOMAIN wrapper.queue_size : wrapper.queue_size[l] = 0

\* The paths that reach a `finally` do remove the id: a request that was
\* answered with the backend's own response is not pending any more.
AnsweredRequestsLeaveTheQueue ==
    \A request_id \in DOMAIN wrapper.responses :
        wrapper.responses[request_id] = 200 =>
            \A i \in 1 .. Len(wrapper.pending_requests) :
                wrapper.pending_requests[i] # request_id

====
